---- MODULE Spec2Model ----
(***************************************************************************)
(* go-search: the crawl-and-index pipeline.                                *)
(*                                                                         *)
(* State machine of the frontier queue (internal/queue/sql.go), the        *)
(* QueueDriver (internal/crawler/url.go), the Fetcher                      *)
(* (internal/crawler/crawler.go), the Processor                            *)
(* (internal/crawler/process.go), the Indexer (crawler.Index) and the      *)
(* store statements they execute (internal/store).                         *)
(*                                                                         *)
(* internal/queue/sql.go holds two revisions of SqlFrontierQueue.  Spec    *)
(* runs the pipeline over the revision at lines 154-287 (Enqueue feeds the *)
(* buffer, Dequeue persists the InProgress flip); SpecRev1 runs the same   *)
(* pipeline over the documented revision at lines 1-152.                   *)
(***************************************************************************)
EXTENDS Integers, Sequences, FiniteSets, TLC

(***************************************************************************)
(* Bounds of the model.                                                    *)
(***************************************************************************)
\* largest buffer capacity B tried (NewIndex passes 500)
MaxBufSize == 2
\* store errors (connection acquire, statement, commit) injected per run
MaxFaults == 1
\* Dequeue calls that return an item, per run
MaxDequeues == 6
\* trailing slashes of a raw URL handed to NormalizeURL
MaxSlashes == 3
\* element nodes of a document handed to ProcessHtmlDocument
MaxNodes == 3

(***************************************************************************)
(* FrontierStatusEnum                                                      *)
(***************************************************************************)
StatusUnvisited == 0
StatusInProgress == 1
StatusCompleted == 2
StatusFailed == 3

(***************************************************************************)
(* URLs.  A URL is scheme://host + path + trailing slashes (+ #fragment);  *)
(* the scheme is the same everywhere and is left out.                      *)
(***************************************************************************)
Url(h, p, n, f) == [host |-> h, path |-> p, slashes |-> n, frag |-> f]

\* the empty string of a nullable text column
NoUrl == Url("", "", 0, FALSE)

\* url.Parse + strings.ToLower(host) + Fragment = "" + one TrimSuffix(path, "/")
\* unless the path is exactly "/"
NormalizeURL(u) ==
    [u EXCEPT !.frag = FALSE,
              !.slashes = IF u.path = "" /\ u.slashes = 1 THEN 1
                          ELSE IF u.slashes > 0 THEN u.slashes - 1
                          ELSE 0]

GetHostame(u) == u.host

\* base.ResolveReference(ref) of an absolute href is the href
MakeUrl(base, href) == href

(***************************************************************************)
(* The crawled web: what the HTTP client and the HTML extractor return.    *)
(***************************************************************************)
uS  == Url("h1", "", 1, FALSE)
uA  == Url("h1", "/a", 0, FALSE)
uA2 == Url("h1", "/a", 1, FALSE)
uB  == Url("h1", "/b", 0, TRUE)
uC  == Url("h1", "/c", 0, FALSE)
uD  == Url("h2", "/d", 0, FALSE)

\* a URL url.Parse rejects (invalid escape in the host), "http://%zz/"
uBad == Url("%zz", "", 1, FALSE)

Seeds == <<uS>>

Pages == {uS, uA, uA2, uB, uC, uD}

\* Extracted.Links: the href values of a page, in document order
Links(u) ==
    CASE u = uS -> <<uA, uB, uA2, uD>>
      [] u = uA -> <<uC, uS>>
      [] u = uB -> <<uD>>
      [] OTHER  -> <<>>

Range(s) == {s[i] : i \in 1..Len(s)}

\* the visible words of a page, in document order, as ScanWordsFromString
\* returns them; /a and /b serve the same body, /d serves it under another
\* domain
Words(u) ==
    CASE u = uS -> <<"x">>
      [] u \in {uA, uA2, uB, uD} -> <<"x", "y", "x">>
      [] OTHER  -> <<"y">>

\* ProcessHtmlDocument (process.go 82-127): every scanned word is written to
\* the hash, counted in termFreqs and counted in len; the SHA256 digest is
\* kept as the word sequence it was fed
ProcessHtmlDocument(links, words) ==
    [Links |-> links,
     TermFreqs |-> [w \in Range(words) |->
                       Cardinality({i \in DOMAIN words : words[i] = w})],
     Hash |-> words,
     Len |-> Len(words)]

Extracted(u) == ProcessHtmlDocument(Links(u), Words(u))

(***************************************************************************)
(* store.FrontierItem and the frontier table (rows in insertion order)     *)
(***************************************************************************)
FrontierItem(url, urlNorm, parentUrl, depth, status) ==
    [url |-> url, url_norm |-> urlNorm, parent_url |-> parentUrl,
     depth |-> depth, status |-> status]

NewFrontierItemFromSeed(u) ==
    FrontierItem(u, NormalizeURL(u), NoUrl, 0, StatusUnvisited)

NewFrontierItemFromParent(parent, rawUrl) ==
    LET u == MakeUrl(parent.url, rawUrl) IN
    FrontierItem(u, NormalizeURL(u), parent.url, parent.depth + 1, StatusUnvisited)

Min(a, b) == IF a < b THEN a ELSE b

\* rows.Scan of "SELECT ... WHERE url_norm = $1"
RowsByNorm(fr, n) == {i \in 1..Len(fr) : fr[i].url_norm = n}

\* the status of the frontier row of a normalized URL, -1 when there is none
StatusOf(fr, n) ==
    IF RowsByNorm(fr, n) = {} THEN 0 - 1
    ELSE fr[CHOOSE i \in RowsByNorm(fr, n) : TRUE].status

\* the conflict target is the primary key url and url_norm carries no UNIQUE
RECURSIVE InsertFIBatchOnUrl(_, _)
InsertFIBatchOnUrl(fr, items) ==
    IF items = <<>> THEN [frontier |-> fr, inserted |-> <<>>]
    ELSE LET it == Head(items) IN
         IF \E i \in 1..Len(fr) : fr[i].url = it.url
         THEN InsertFIBatchOnUrl(fr, Tail(items))
         ELSE LET rest == InsertFIBatchOnUrl(Append(fr, it), Tail(items)) IN
              [frontier |-> rest.frontier, inserted |-> <<it>> \o rest.inserted]

\* insertFIBatchStmt: INSERT ... ON CONFLICT (url_norm) DO NOTHING RETURNING *
\* [frontier, inserted]
RECURSIVE InsertFIBatch(_, _)
InsertFIBatch(fr, items) ==
    IF items = <<>> THEN [frontier |-> fr, inserted |-> <<>>]
    ELSE LET it == Head(items) IN
         IF RowsByNorm(fr, it.url_norm) # {}
         THEN InsertFIBatch(fr, Tail(items))
         ELSE LET rest == InsertFIBatch(Append(fr, it), Tail(items)) IN
              [frontier |-> rest.frontier, inserted |-> <<it>> \o rest.inserted]

\* "UPDATE frontier SET status = $1 WHERE url_norm = $2"
UpdateFIStatus(fr, urlNorm, status) ==
    [i \in 1..Len(fr) |->
        IF fr[i].url_norm = urlNorm THEN [fr[i] EXCEPT !.status = status] ELSE fr[i]]

\* "SELECT COUNT(*) FROM frontier WHERE status = $1"
GetFICountByStatus(fr, status) ==
    Cardinality({i \in 1..Len(fr) : fr[i].status = status})

\* "SELECT * FROM frontier WHERE status = $1 ORDER BY depth ASC LIMIT $2":
\* every result the statement may return (rows of equal depth in any order)
GetFIByStatusDepthSorted(fr, status, limit) ==
    LET S == {i \in 1..Len(fr) : fr[i].status = status}
        n == Min(limit, Cardinality(S))
        Ok(q) == /\ \A j, k \in 1..n : j < k =>
                        /\ q[j] # q[k]
                        /\ fr[q[j]].depth <= fr[q[k]].depth
                 /\ \A i \in S : (\A k \in 1..n : q[k] # i) =>
                        \A k \in 1..n : fr[q[k]].depth <= fr[i].depth
    IN  {[k \in 1..n |-> fr[q[k]]] : q \in {p \in [1..n -> S] : Ok(p)}}

(***************************************************************************)
(* SqlFrontierQueue.  A call returns every outcome it may have: errs is    *)
(* the set of answers to "does this store call fail" that are possible     *)
(* ({FALSE}: the store works, {TRUE}: the context is cancelled).           *)
(***************************************************************************)
NoItem == FrontierItem(NoUrl, NoUrl, NoUrl, 0, StatusUnvisited)

\* refill (both revisions): [buffer, err, failed]
refill(buf, fr, B, errs) ==
    (IF TRUE \in errs
       THEN {[buffer |-> buf, err |-> "error", failed |-> TRUE]} ELSE {})
    \cup
    (IF FALSE \in errs
       THEN {IF items = <<>>
               THEN [buffer |-> buf, err |-> "empty", failed |-> FALSE]
               ELSE [buffer |-> buf \o items, err |-> "nil", failed |-> FALSE]
             : items \in GetFIByStatusDepthSorted(fr, StatusUnvisited, B)}
       ELSE {})

DeqResult(buf, fr, item, err, stage, failed) ==
    [buffer |-> buf, frontier |-> fr, item |-> item, err |-> err,
     stage |-> stage, failed |-> failed]

\* Dequeue that pops the head and runs no UPDATE
DequeueNoFlip(buf, fr, B, errs) ==
    LET filled == IF Len(buf) = 0 THEN refill(buf, fr, B, errs)
                  ELSE {[buffer |-> buf, err |-> "nil", failed |-> FALSE]}
    IN  UNION {IF r.err # "nil"
                 THEN {DeqResult(r.buffer, fr, NoItem, r.err, "refill", r.failed)}
                 ELSE IF FALSE \in errs
                 THEN {DeqResult(Tail(r.buffer), fr, Head(r.buffer), "nil", "pop", FALSE)}
                 ELSE {} : r \in filled}

\* sql.go 216-234: [buffer, frontier, item, err, stage, failed]
Dequeue(buf, fr, B, errs) ==
    LET filled == IF Len(buf) = 0 THEN refill(buf, fr, B, errs)
                  ELSE {[buffer |-> buf, err |-> "nil", failed |-> FALSE]}
        Rest(r) ==
            LET item == [Head(r.buffer) EXCEPT !.status = StatusInProgress] IN
            (IF TRUE \in errs
               THEN {DeqResult(r.buffer, fr, NoItem, "error", "acquire", TRUE),
                     DeqResult(Tail(r.buffer), fr, item, "error", "flip", TRUE)}
               ELSE {})
            \cup
            (IF FALSE \in errs
               THEN {DeqResult(Tail(r.buffer),
                               UpdateFIStatus(fr, item.url_norm, item.status),
                               item, "nil", "flip", FALSE)}
               ELSE {})
    IN  UNION {IF r.err # "nil"
                 THEN {DeqResult(r.buffer, fr, NoItem, r.err, "refill", r.failed)}
                 ELSE Rest(r) : r \in filled}

\* sql.go 58-76: the connection is acquired, the item is popped, no statement runs
DequeueRev1(buf, fr, B, errs) ==
    LET filled == IF Len(buf) = 0 THEN refill(buf, fr, B, errs)
                  ELSE {[buffer |-> buf, err |-> "nil", failed |-> FALSE]}
        Rest(r) ==
            (IF TRUE \in errs
               THEN {DeqResult(r.buffer, fr, NoItem, "error", "acquire", TRUE)}
               ELSE {})
            \cup
            (IF FALSE \in errs
               THEN {DeqResult(Tail(r.buffer), fr, Head(r.buffer), "nil", "pop", FALSE)}
               ELSE {})
    IN  UNION {IF r.err # "nil"
                 THEN {DeqResult(r.buffer, fr, NoItem, r.err, "refill", r.failed)}
                 ELSE Rest(r) : r \in filled}

\* Enqueue that buffers every inserted row, whatever room the buffer has left
EnqueueNoLimit(buf, fr, B, items, fail) ==
    IF fail THEN [buffer |-> buf, frontier |-> fr, err |-> "error"]
    ELSE LET r == InsertFIBatch(fr, items) IN
         [buffer |-> buf \o r.inserted, frontier |-> r.frontier, err |-> "nil"]

\* sql.go 192-214: [buffer, frontier, err]
Enqueue(buf, fr, B, items, fail) ==
    IF fail THEN [buffer |-> buf, frontier |-> fr, err |-> "error"]
    ELSE LET r == InsertFIBatch(fr, items)
             spaceLeft == B - Len(buf)
             end == Min(Len(r.inserted), spaceLeft)
         IN  [buffer |-> IF Len(buf) < B THEN buf \o SubSeq(r.inserted, 1, end)
                         ELSE buf,
              frontier |-> r.frontier, err |-> "nil"]

\* sql.go 46-54
EnqueueRev1(buf, fr, B, items, fail) ==
    IF fail THEN [buffer |-> buf, frontier |-> fr, err |-> "error"]
    ELSE [buffer |-> buf, frontier |-> InsertFIBatch(fr, items).frontier,
          err |-> "nil"]

\* Len: count of Unvisited rows plus the buffered items
QueueLen(buf, fr) == GetFICountByStatus(fr, StatusUnvisited) + Len(buf)

\* every row that is no longer Unvisited is deleted
CleanupFrontierVisited(fr) == SelectSeq(fr, LAMBDA r : r.status = StatusUnvisited)

\* CleanupFrontier: "DELETE FROM frontier WHERE status = $1", StatusCompleted
CleanupFrontier(fr) == SelectSeq(fr, LAMBDA r : r.status # StatusCompleted)

\* a queue that serves its buffer only and reports empty without a refill
QueueDequeueNoRefill(r, buf, fr, B, errs) ==
    IF buf = <<>> THEN {DeqResult(buf, fr, NoItem, "empty", "refill", FALSE)}
    ELSE Dequeue(buf, fr, B, errs)

\* the queue.Queue[store.FrontierItem] the driver was built with
QueueDequeue(r, buf, fr, B, errs) ==
    IF r = 1 THEN DequeueRev1(buf, fr, B, errs) ELSE Dequeue(buf, fr, B, errs)

QueueEnqueue(r, buf, fr, B, items, fail) ==
    IF r = 1 THEN EnqueueRev1(buf, fr, B, items, fail)
    ELSE Enqueue(buf, fr, B, items, fail)

\* CrawlQueue.enqueueItems: one Enqueue per item, an error is logged and the
\* loop goes on; failAt holds the positions whose Enqueue fails
RECURSIVE enqueueItems(_, _, _, _, _, _, _)
enqueueItems(r, buf, fr, B, items, k, failAt) ==
    IF k > Len(items) THEN [buffer |-> buf, frontier |-> fr]
    ELSE LET e == QueueEnqueue(r, buf, fr, B, <<items[k]>>, k \in failAt) IN
         enqueueItems(r, e.buffer, e.frontier, B, items, k + 1, failAt)

\* Processor.getFrontierMessages
getFrontierMessages(fi, links) ==
    [k \in 1..Len(links) |-> NewFrontierItemFromParent(fi, links[k])]

(***************************************************************************)
(* State                                                                   *)
(***************************************************************************)
VARIABLES
    rev,        \* the revision of SqlFrontierQueue the crawler is built with
    bufSize,    \* SqlFrontierQueue.bufSize
    buffer,     \* SqlFrontierQueue.buffer
    frontier,   \* table frontier, committed rows in insertion order
    docs,       \* table docs, committed rows
    terms,      \* table terms, committed rows
    postings,   \* table postings, committed rows
    docSeq,     \* identity sequence of docs.id
    termSeq,    \* identity sequence of terms.id
    cancelled,  \* the shared context is Done
    faults,     \* store errors that may still occur
    qpc,        \* CrawlQueue.Run: "start", "prepare", "select", "done"
    top,        \* CrawlQueue.Run: the message prepared for cq.out
    activeOut,  \* CrawlQueue.Run: activeOut is cq.out (TRUE) or nil (FALSE)
    deqRes,     \* what the last Dequeue returned: [item, err, stage]
    dequeued,   \* the items Dequeue returned with a nil error, in order
    cpc,        \* Crawler.Run: "recv", "fetch", "send", "done"
    cmsg,       \* Crawler.Run: the CrawlerMessage in hand
    ppc,        \* Processor.Run: "recv", "process", "wait", "done"
    pmsg,       \* Processor.Run: the ProcessorMessage in hand
    sendIdx,    \* goroutine sendToIndex: "idle", "pending", "done", "returned"
    sendQ,      \* goroutine sendToQueue: "idle", "pending", "done"
    ipc,        \* Index.firstPassage: "recv", "begin", "doc", "terms",
                \* "postings", "flip", "commit", "done"
    imsg,       \* Index.firstPassage: the IndexEntry in hand
    tx,         \* the open transaction: what its statements see and wrote
    ierr,       \* Index.firstPassage: err of the message handled last:
                \* "nil", "dedup" (domain and hash taken), "store"
    closePc,    \* Index.Close: the calls it has made so far (0: not called)
    rpc,        \* Ranker.Start: "start" (before the initial run), "op" (about
                \* to invoke the phase's operation), "wait" (in the select
                \* before a retry), "idle" (in Start's select), "stopped"
    rphase,     \* updateRankings: the phase in hand, an index into Phases
    attempt,    \* retryWithBackoff: attempt
    delay,      \* retryWithBackoff: delay of the wait in hand, in ms
    rres,       \* what updateRankings returned last: "none", "nil", "store",
                \* "ctx"
    runs,       \* calls of updateRankings so far
    rctx,       \* the ranker's context is cancelled (cmd/rank/main.go)
    invoked,    \* the operations invoked in the run in hand
    termDf,     \* terms.df: [id, df] of the terms whose df is not NULL
    termIdf,    \* terms.idf: [id, n, df] for idf = LN((n+1)/(df+1)) + 1
    docNorm,    \* docs.norm: [id, parts] for norm = SQRT of the sum over parts
                \* [term_id, tf_raw, n, df] of ((1 + LN(tf_raw)) * idf)^2
    input,      \* the call in hand of a function run on its own: [fn, arg]
    output      \* what that call returned

qvars == <<rev, bufSize, buffer, qpc, top, activeOut, deqRes, dequeued>>
dbvars == <<docs, terms, postings, docSeq, termSeq>>
cvars == <<cpc, cmsg>>
pvars == <<ppc, pmsg, sendIdx, sendQ>>
ivars == <<ipc, imsg, tx, ierr>>
rvars == <<rpc, rphase, attempt, delay, rres, runs, rctx, invoked,
           termDf, termIdf, docNorm>>
pipeline == <<qvars, frontier, dbvars, cancelled, faults, cvars, pvars, ivars,
              closePc>>
fvars == <<input, output>>
vars == <<pipeline, rvars, fvars>>

\* the answers a store call made now may get: after cancellation
\* Pool.Acquire, Pool.Begin and every statement return ctx.Err()
\* no function is run on its own
NoCall == [fn |-> "", arg |-> <<>>]

StoreErrs ==
    IF cancelled THEN {TRUE}
    ELSE IF faults > 0 THEN {FALSE, TRUE}
    ELSE {FALSE}

\* the channels Index.Close has closed so far: cq.out (CrawlQueue.Close), c.out
\* (Crawler.Close), p.queue and p.index (Processor.Close)
CqOutClosed == closePc \in 2..5
COutClosed == closePc \in 3..5
PQueueClosed == closePc \in 4..5
PIndexClosed == closePc = 5

Spend(failed) ==
    faults' = IF failed /\ ~cancelled THEN faults - 1 ELSE faults

NoEntry ==
    [Url |-> NoUrl, UrlNorm |-> NoUrl, Domain |-> "", Hash |-> <<>>, Len |-> 0,
     TermFreqs |-> <<>>]

NoTx ==
    [open |-> FALSE, docs |-> {}, terms |-> {}, postings |-> {}, flip |-> {},
     docId |-> 0, termIdFreqMap |-> {}]

NoDeq == [item |-> NoItem, err |-> "nil", stage |-> "none"]

\* NewIndex: NewSqlQueue(ctx, s, B, seeds), one Enqueue per seed, then the
\* stages and their channels
InitRev(r) ==
    /\ rev = r
    /\ bufSize \in Len(Seeds)..MaxBufSize
    /\ faults \in 0..MaxFaults
    /\ LET seeds == [k \in 1..Len(Seeds) |-> NewFrontierItemFromSeed(Seeds[k])]
           q == enqueueItems(r, <<>>, <<>>, bufSize, seeds, 1, {})
       IN  /\ buffer = q.buffer
           /\ frontier = q.frontier
    /\ docs = {} /\ terms = {} /\ postings = {}
    /\ docSeq = 0 /\ termSeq = 0
    /\ cancelled = FALSE
    /\ closePc = 0
    /\ rpc = "start" /\ rphase = 1 /\ attempt = 0 /\ delay = 0
    /\ rres = "none" /\ runs = 0 /\ rctx = FALSE /\ invoked = <<>>
    /\ termDf = {} /\ termIdf = {} /\ docNorm = {}
    /\ input = NoCall /\ output = NoCall
    /\ qpc = "start" /\ top = NoItem /\ activeOut = FALSE
    /\ deqRes = NoDeq /\ dequeued = <<>>
    /\ cpc = "recv" /\ cmsg = NoItem
    /\ ppc = "recv" /\ pmsg = NoItem /\ sendIdx = "idle" /\ sendQ = "idle"
    /\ ipc = "recv" /\ imsg = NoEntry /\ tx = NoTx /\ ierr = "nil"

Init == InitRev(2)

(***************************************************************************)
(* QueueDriver: CrawlQueue.Run                                             *)
(***************************************************************************)
\* url.go 33-36: return at once when Len fails or the queue is empty
QRunStart ==
    /\ qpc = "start"
    /\ \E f \in StoreErrs :
         /\ Spend(f)
         /\ qpc' = IF f \/ QueueLen(buffer, frontier) = 0 THEN "done" ELSE "prepare"
    /\ UNCHANGED <<rev, bufSize, buffer, top, activeOut, deqRes, dequeued,
                   frontier, dbvars, cancelled, closePc, cvars, pvars, ivars,
                   rvars, fvars>>

\* url.go 39-43 and 63-75: prepareNextMessage calls Dequeue; ErrorFrontierEmpty
\* leaves the emit arm nil, any other error breaks the loop
QPrepare ==
    /\ qpc = "prepare"
    /\ Len(dequeued) < MaxDequeues
    /\ \E o \in QueueDequeue(rev, buffer, frontier, bufSize, StoreErrs) :
         /\ Spend(o.failed)
         /\ buffer' = o.buffer
         /\ frontier' = o.frontier
         /\ deqRes' = [item |-> o.item, err |-> o.err, stage |-> o.stage]
         /\ dequeued' = IF o.err = "nil" THEN Append(dequeued, o.item) ELSE dequeued
         /\ top' = IF o.err = "nil" THEN o.item ELSE NoItem
         /\ activeOut' = (o.err = "nil")
         /\ qpc' = IF o.err = "error" THEN "done" ELSE "select"
    /\ UNCHANGED <<rev, bufSize, dbvars, cancelled, closePc, cvars, pvars, ivars,
                   rvars, fvars>>

\* url.go 46-48: case <-cq.ctx.Done()
QCancelled ==
    /\ qpc = "select"
    /\ cancelled
    /\ qpc' = "done"
    /\ UNCHANGED <<rev, bufSize, buffer, top, activeOut, deqRes, dequeued,
                   frontier, dbvars, cancelled, closePc, faults, cvars, pvars, ivars,
                   rvars, fvars>>

\* url.go 49-50 with crawler.go 45-52: activeOut <- top meets cm := <-c.in
\* (cq.out is unbuffered)
QEmit ==
    /\ qpc = "select"
    /\ activeOut
    /\ ~CqOutClosed
    /\ cpc = "recv"
    /\ qpc' = "prepare"
    /\ cpc' = "fetch"
    /\ cmsg' = top
    /\ UNCHANGED <<rev, bufSize, buffer, top, activeOut, deqRes, dequeued,
                   frontier, dbvars, cancelled, closePc, faults, pvars, ivars,
                   rvars, fvars>>

\* an armed driver offers its item and takes no batch until it is taken
QAcceptUnarmed ==
    /\ qpc = "select"
    /\ ~activeOut
    /\ sendQ = "pending"
    /\ ~PQueueClosed
    /\ LET items == getFrontierMessages(pmsg, Links(pmsg.url)) IN
       \E failAt \in (IF cancelled THEN {1..Len(items)}
                      ELSE {{}} \cup (IF faults > 0
                                        THEN {{k} : k \in 1..Len(items)}
                                        ELSE {})) :
         LET q == enqueueItems(rev, buffer, frontier, bufSize, items, 1, failAt) IN
         /\ Spend(failAt # {})
         /\ buffer' = q.buffer
         /\ frontier' = q.frontier
    /\ sendQ' = "done"
    /\ qpc' = "prepare"
    /\ UNCHANGED <<rev, bufSize, top, activeOut, deqRes, dequeued,
                   dbvars, cancelled, closePc, cvars, ppc, pmsg, sendIdx, ivars,
                   rvars, fvars>>

\* url.go 51-57 with process.go 145-154: items := <-cq.in meets p.queue <- msgs
\* (cq.in is unbuffered), then enqueueItems
QAccept ==
    /\ qpc = "select"
    /\ sendQ = "pending"
    /\ ~PQueueClosed
    /\ LET items == getFrontierMessages(pmsg, Links(pmsg.url)) IN
       \E failAt \in (IF cancelled THEN {1..Len(items)}
                      ELSE {{}} \cup (IF faults > 0
                                        THEN {{k} : k \in 1..Len(items)}
                                        ELSE {})) :
         LET q == enqueueItems(rev, buffer, frontier, bufSize, items, 1, failAt) IN
         /\ Spend(failAt # {})
         /\ buffer' = q.buffer
         /\ frontier' = q.frontier
    /\ sendQ' = "done"
    /\ qpc' = "prepare"
    /\ UNCHANGED <<rev, bufSize, top, activeOut, deqRes, dequeued,
                   dbvars, cancelled, closePc, cvars, ppc, pmsg, sendIdx, ivars,
                   rvars, fvars>>

(***************************************************************************)
(* Fetcher: Crawler.Run                                                    *)
(***************************************************************************)
\* crawler.go 42-44: case <-c.ctx.Done()
CCancelled ==
    /\ cpc = "recv"
    /\ cancelled
    /\ cpc' = "done"
    /\ UNCHANGED <<qvars, frontier, dbvars, cancelled, closePc, faults, cmsg, pvars, ivars,
                   rvars, fvars>>

\* handleIoError only prints the error
CFetchFailKeepsStatus ==
    /\ cpc = "fetch"
    /\ cpc' = "recv"
    /\ cmsg' = NoItem
    /\ UNCHANGED <<qvars, frontier, dbvars, cancelled, closePc, faults, pvars, ivars,
                   rvars, fvars>>

\* crawler.go 53-57 and 65-68, 78-91: getReaderFromUrl fails (transport error
\* or a status other than 200); handleIoError marks the item Failed unless the
\* store call fails too
CFetchFail ==
    /\ cpc = "fetch"
    /\ \E f \in StoreErrs :
         /\ Spend(f)
         /\ frontier' = IF f THEN frontier
                        ELSE UpdateFIStatus(frontier, cmsg.url_norm, StatusFailed)
    /\ cpc' = "recv"
    /\ cmsg' = NoItem
    /\ UNCHANGED <<qvars, dbvars, cancelled, closePc, pvars, ivars, rvars, fvars>>

\* crawler.go 53 and 59: getReaderFromUrl returns the body, c.out <- is next
CFetchOk ==
    /\ cpc = "fetch"
    /\ cpc' = "send"
    /\ UNCHANGED <<qvars, frontier, dbvars, cancelled, closePc, faults, cmsg, pvars, ivars,
                   rvars, fvars>>

\* the Processor is handed the item the driver has armed, ahead of the one the
\* Fetcher holds
CSendTop ==
    /\ cpc = "send"
    /\ ppc = "recv"
    /\ ~COutClosed
    /\ cpc' = "recv"
    /\ cmsg' = NoItem
    /\ ppc' = "process"
    /\ pmsg' = IF activeOut THEN top ELSE cmsg
    /\ UNCHANGED <<qvars, frontier, dbvars, cancelled, closePc, faults, sendIdx, sendQ, ivars,
                   rvars, fvars>>

\* crawler.go 59 with process.go 50-56: c.out <- ProcessorMessage{cm.fi, reader}
\* meets pc := <-p.in (c.out is unbuffered)
CSend ==
    /\ cpc = "send"
    /\ ppc = "recv"
    /\ ~COutClosed
    /\ cpc' = "recv"
    /\ cmsg' = NoItem
    /\ ppc' = "process"
    /\ pmsg' = cmsg
    /\ UNCHANGED <<qvars, frontier, dbvars, cancelled, closePc, faults, sendIdx, sendQ, ivars,
                   rvars, fvars>>

(***************************************************************************)
(* Processor: Processor.Run, processMessage and its two sender goroutines  *)
(***************************************************************************)
\* process.go 47-49: case <-p.ctx.Done()
PCancelled ==
    /\ ppc = "recv"
    /\ cancelled
    /\ ppc' = "done"
    /\ UNCHANGED <<qvars, frontier, dbvars, cancelled, closePc, faults, cvars, pmsg,
                   sendIdx, sendQ, ivars,
                   rvars, fvars>>

\* the error is logged and the frontier is not written
handleErrorLogOnly(fr, urlNorm, errs) ==
    {[frontier |-> fr, failed |-> f] : f \in errs}

\* Processor.handleError, Crawler.handleIoError, Index.handleError: acquire a
\* connection and mark the item Failed; a store error is logged and the status
\* stays as it is.  [frontier, failed]
handleError(fr, urlNorm, errs) ==
    {[frontier |-> IF f THEN fr ELSE UpdateFIStatus(fr, urlNorm, StatusFailed),
      failed |-> f] : f \in errs}

\* the queue sender is started although parsing failed
PFailSendsBatch ==
    /\ ppc = "process"
    /\ \E h \in handleError(frontier, pmsg.url_norm, StoreErrs) :
         /\ Spend(h.failed)
         /\ frontier' = h.frontier
    /\ ppc' = "recv"
    /\ sendQ' = "pending"
    /\ UNCHANGED <<qvars, dbvars, cancelled, closePc, cvars, pmsg, sendIdx, ivars,
                   rvars, fvars>>

\* process.go 64-75 and 89-101: Parse (language gate included) or
\* ProcessHtmlDocument fails
PFail ==
    /\ ppc = "process"
    /\ \E h \in handleError(frontier, pmsg.url_norm, StoreErrs) :
         /\ Spend(h.failed)
         /\ frontier' = h.frontier
    /\ ppc' = "recv"
    /\ pmsg' = NoItem
    /\ UNCHANGED <<qvars, dbvars, cancelled, closePc, cvars, sendIdx, sendQ, ivars,
                   rvars, fvars>>

\* index.go 169-178: NewIndexEntry returns the error of NormalizeURL or
\* GetHostame, which is the error of url.Parse
NewIndexEntryErr(url) == url = uBad

\* process.go 77-85: both goroutines started, wg.Wait() is next; sendToIndex
\* (128-142) is at its select, or has returned the error of getIndexEntry
\* without wg.Done()
PExtract ==
    /\ ppc = "process"
    /\ ppc' = "wait"
    /\ sendIdx' = IF NewIndexEntryErr(pmsg.url) THEN "returned" ELSE "pending"
    /\ sendQ' = "pending"
    /\ UNCHANGED <<qvars, frontier, dbvars, cancelled, closePc, faults, cvars, pmsg, ivars,
                   rvars, fvars>>

\* process.go 135-136: sendToIndex takes case <-p.ctx.Done()
PSendIdxCancelled ==
    /\ sendIdx = "pending"
    /\ cancelled
    /\ sendIdx' = "done"
    /\ UNCHANGED <<qvars, frontier, dbvars, cancelled, closePc, faults, cvars, ppc, pmsg,
                   sendQ, ivars,
                   rvars, fvars>>

\* process.go 148-149: sendToQueue takes case <-p.ctx.Done()
PSendQCancelled ==
    /\ sendQ = "pending"
    /\ cancelled
    /\ sendQ' = "done"
    /\ UNCHANGED <<qvars, frontier, dbvars, cancelled, closePc, faults, cvars, ppc, pmsg,
                   sendIdx, ivars,
                   rvars, fvars>>

\* processMessage returns once the index send is done, the queue send or not
PJoinIndexOnly ==
    /\ ppc = "wait"
    /\ sendIdx = "done"
    /\ sendQ \in {"pending", "done"}
    /\ ppc' = "recv"
    /\ pmsg' = NoItem
    /\ sendIdx' = "idle"
    /\ sendQ' = "idle"
    /\ UNCHANGED <<qvars, frontier, dbvars, cancelled, closePc, faults, cvars, ivars,
                   rvars, fvars>>

\* process.go 85: wg.Wait() returns, processMessage returns to the loop
PJoin ==
    /\ ppc = "wait"
    /\ sendIdx = "done"
    /\ sendQ = "done"
    /\ ppc' = "recv"
    /\ pmsg' = NoItem
    /\ sendIdx' = "idle"
    /\ sendQ' = "idle"
    /\ UNCHANGED <<qvars, frontier, dbvars, cancelled, closePc, faults, cvars, ivars,
                   rvars, fvars>>

(***************************************************************************)
(* Indexer: Index.firstPassage, one action per store call of a message     *)
(***************************************************************************)
\* store.NewIndexEntry, called by Processor.getIndexEntry
NewIndexEntry(url, hash, len, termFreqs) ==
    [Url |-> url, UrlNorm |-> NormalizeURL(url), Domain |-> GetHostame(url),
     Hash |-> hash, Len |-> len, TermFreqs |-> termFreqs]

\* the statements run on a pool connection: every row is visible once written
OutsideTxAutocommit(committed, written) == written

\* part_011 69 and 75: the statements run on tx, so a reader outside the
\* transaction sees the committed rows, not the rows tx wrote
OutsideTx(committed, written) == committed

ErrsWith(n) ==
    IF cancelled THEN {TRUE}
    ELSE IF n > 0 THEN {FALSE, TRUE}
    ELSE {FALSE}

\* firstPassage 59-61: case <-idx.ctx.Done()
ICancelled ==
    /\ ipc = "recv"
    /\ cancelled
    /\ ipc' = "done"
    /\ UNCHANGED <<qvars, frontier, dbvars, cancelled, closePc, faults, cvars, pvars, imsg,
                   tx, ierr,
                   rvars, fvars>>

\* firstPassage 62 with process.go 133-138: im := <-idx.in meets p.index <- msg
IRecv ==
    /\ ipc = "recv"
    /\ sendIdx = "pending"
    /\ ~PIndexClosed
    /\ LET ex == Extracted(pmsg.url) IN
       imsg' = NewIndexEntry(pmsg.url, ex.Hash, ex.Len, ex.TermFreqs)
    /\ sendIdx' = "done"
    /\ ipc' = "begin"
    /\ ierr' = "nil"
    /\ UNCHANGED <<qvars, frontier, dbvars, cancelled, closePc, faults, cvars, ppc, pmsg,
                   sendQ, tx,
                   rvars, fvars>>

\* firstPassage 71-72, 77-79, 84-86, 91-92: tx.Rollback where a transaction is
\* open, then handleError; spent is 1 when a store error brought us here
IAbort(spent) ==
    /\ \E h \in handleError(frontier, imsg.UrlNorm, ErrsWith(faults - spent)) :
         /\ frontier' = h.frontier
         /\ faults' = IF cancelled THEN faults
                      ELSE faults - spent - (IF h.failed THEN 1 ELSE 0)
    /\ docs' = OutsideTx(docs, IF tx.open THEN tx.docs ELSE docs)
    /\ terms' = OutsideTx(terms, IF tx.open THEN tx.terms ELSE terms)
    /\ postings' = OutsideTx(postings, IF tx.open THEN tx.postings ELSE postings)
    /\ tx' = NoTx
    /\ ipc' = "recv"
    /\ imsg' = NoEntry
    /\ ierr' = IF spent = 0 THEN "dedup" ELSE "store"
    /\ UNCHANGED <<qvars, docSeq, termSeq, cancelled, closePc, cvars, pvars, rvars, fvars>>

\* a statement of the open transaction ran: tx holds what it wrote
IStep(newTx, next) ==
    /\ tx' = newTx
    /\ docs' = OutsideTx(docs, newTx.docs)
    /\ terms' = OutsideTx(terms, newTx.terms)
    /\ postings' = OutsideTx(postings, newTx.postings)
    /\ ipc' = next
    /\ UNCHANGED <<qvars, frontier, cancelled, closePc, faults, cvars, pvars, imsg, ierr,
                   rvars, fvars>>

\* firstPassage 69-73: idx.s.Pool.Begin
IBegin ==
    /\ ipc = "begin"
    /\ \E f \in StoreErrs :
         IF f THEN IAbort(1)
         ELSE /\ IStep([open |-> TRUE, docs |-> docs, terms |-> terms,
                        postings |-> postings, flip |-> {}, docId |-> 0,
                        termIdFreqMap |-> {}], "doc")
              /\ UNCHANGED <<docSeq, termSeq, rvars, fvars>>

\* checkDocConflictStmt: "SELECT id FROM docs WHERE domain = $1 AND hash = $2"
hasDomainHashConflict(d, domain, hash) ==
    \E r \in d : r.domain = domain /\ r.hash = hash

\* insertDocStmt: INSERT ... ON CONFLICT (url) DO UPDATE SET len = EXCLUDED.len
\* RETURNING id, under UNIQUE(domain, hash).  [docs, id, seq, err]
insertDocStmt(d, seq, url, domain, hash, len) ==
    IF \E r \in d : r.url = url
    THEN LET old == CHOOSE r \in d : r.url = url IN
         [docs |-> (d \ {old}) \cup {[old EXCEPT !.len = len]},
          id |-> old.id, seq |-> seq + 1, err |-> FALSE]
    ELSE IF \E r \in d : r.domain = domain /\ r.hash = hash
    THEN [docs |-> d, id |-> 0, seq |-> seq + 1, err |-> TRUE]
    ELSE [docs |-> d \cup {[id |-> seq + 1, url |-> url, domain |-> domain,
                            hash |-> hash, len |-> len]},
          id |-> seq + 1, seq |-> seq + 1, err |-> FALSE]

\* the document is upserted by url alone (index.go 10-14 and 73-77)
insertDocumentInfoByUrl(d, seq, url, domain, hash, len) ==
    IF \E r \in d : r.url = url
    THEN LET old == CHOOSE r \in d : r.url = url IN
         [docs |-> (d \ {old}) \cup {[old EXCEPT !.len = len]},
          id |-> old.id, seq |-> seq + 1, err |-> FALSE]
    ELSE [docs |-> d \cup {[id |-> seq + 1, url |-> url, domain |-> domain,
                            hash |-> hash, len |-> len]},
          id |-> seq + 1, seq |-> seq + 1, err |-> FALSE]

\* insertDocumentInfo (index.go 218-230): [docs, id, seq, err]
insertDocumentInfo(d, seq, url, domain, hash, len) ==
    IF hasDomainHashConflict(d, domain, hash)
    THEN [docs |-> d, id |-> 0 - 1, seq |-> seq, err |-> TRUE]
    ELSE insertDocStmt(d, seq, url, domain, hash, len)

\* IndexDocumentInit 198-201
IDoc ==
    /\ ipc = "doc"
    /\ \E f \in StoreErrs :
         IF f THEN IAbort(1)
         ELSE LET r == insertDocumentInfo(tx.docs, docSeq, imsg.Url, imsg.Domain,
                                          imsg.Hash, imsg.Len) IN
              IF r.err THEN IAbort(0)
              ELSE /\ IStep([tx EXCEPT !.docs = r.docs, !.docId = r.id], "terms")
                   /\ docSeq' = r.seq
                   /\ termSeq' = termSeq

\* the ways to number the new terms n1 < n2 < ... with the next identity values
\* (unnest($1) follows the iteration order of a Go map)
Numberings(new, seq) ==
    {f \in [new -> (seq + 1)..(seq + Cardinality(new))] :
        \A a, b \in new : a # b => f[a] # f[b]}

\* insertTerms (index.go 247-272) over insertTermsStmt: INSERT ... ON CONFLICT
\* (raw) DO UPDATE SET raw = EXCLUDED.raw RETURNING id, raw; every outcome
\* [terms, seq, termIdFreqMap], termIdFreqMap as a set of [term_id, tf_raw]
insertTerms(t, seq, termFreqs) ==
    LET raws == DOMAIN termFreqs
        new == {w \in raws : ~\E r \in t : r.raw = w}
        IdOf(tt, w) == (CHOOSE r \in tt : r.raw = w).id
    IN  {LET tt == t \cup {[id |-> f[w], raw |-> w] : w \in new} IN
         [terms |-> tt, seq |-> seq + Cardinality(new),
          termIdFreqMap |-> {[term_id |-> IdOf(tt, w), tf_raw |-> termFreqs[w]]
                             : w \in raws}]
         : f \in Numberings(new, seq)}

\* insertPostings (index.go 275-284) over insertPostingsBatchStmt: INSERT ...
\* ON CONFLICT (term_id, doc_id) DO UPDATE SET tf_raw = EXCLUDED.tf_raw
insertPostings(p, docId, termIdFreqMap) ==
    {r \in p : ~(r.doc_id = docId /\ \E m \in termIdFreqMap : m.term_id = r.term_id)}
    \cup {[term_id |-> m.term_id, doc_id |-> docId, tf_raw |-> m.tf_raw]
          : m \in termIdFreqMap}

\* IndexDocumentInit 203-206
ITerms ==
    /\ ipc = "terms"
    /\ \E f \in StoreErrs :
         IF f THEN IAbort(1)
         ELSE \E r \in insertTerms(tx.terms, termSeq, imsg.TermFreqs) :
                /\ IStep([tx EXCEPT !.terms = r.terms,
                                    !.termIdFreqMap = r.termIdFreqMap], "postings")
                /\ termSeq' = r.seq
                /\ docSeq' = docSeq

\* IndexDocumentInit 208-211
IPostings ==
    /\ ipc = "postings"
    /\ \E f \in StoreErrs :
         IF f THEN IAbort(1)
         ELSE /\ IStep([tx EXCEPT !.postings =
                           insertPostings(tx.postings, tx.docId, tx.termIdFreqMap)],
                       "flip")
              /\ UNCHANGED <<docSeq, termSeq, rvars, fvars>>

\* firstPassage 82-87: store.UpdateFIStatus(idx.ctx, tx, UrlNorm, StatusCompleted)
IFlip ==
    /\ ipc = "flip"
    /\ \E f \in StoreErrs :
         IF f THEN IAbort(1)
         ELSE /\ tx' = [tx EXCEPT !.flip = {imsg.UrlNorm}]
              /\ frontier' = OutsideTx(frontier,
                                UpdateFIStatus(frontier, imsg.UrlNorm, StatusCompleted))
              /\ ipc' = "commit"
              /\ UNCHANGED <<qvars, dbvars, cancelled, closePc, faults, cvars, pvars, imsg,
                             ierr,
                   rvars, fvars>>

\* firstPassage 89-95: tx.Commit
ICommit ==
    /\ ipc = "commit"
    /\ \E f \in StoreErrs :
         IF f THEN IAbort(1)
         ELSE /\ docs' = tx.docs
              /\ terms' = tx.terms
              /\ postings' = tx.postings
              /\ frontier' = IF imsg.UrlNorm \in tx.flip
                             THEN UpdateFIStatus(frontier, imsg.UrlNorm, StatusCompleted)
                             ELSE frontier
              /\ tx' = NoTx
              /\ ipc' = "recv"
              /\ imsg' = NoEntry
              /\ UNCHANGED <<qvars, docSeq, termSeq, cancelled, closePc, faults, cvars, pvars,
                             ierr,
                   rvars, fvars>>

(***************************************************************************)
(* The owner of the context cancels it (crawl duration over, or a signal). *)
(***************************************************************************)
Cancel ==
    /\ ~cancelled
    /\ cancelled' = TRUE
    /\ UNCHANGED <<qvars, frontier, dbvars, faults, cvars, pvars, ivars, closePc,
                   rvars, fvars>>

(***************************************************************************)
(* Index.Close, called by main while the stages run, and what the stages   *)
(* do with a closed channel                                                *)
(***************************************************************************)
\* part_011 125 with url.go 109-111: cq.queue.Close() runs CleanupFrontier; an
\* error is logged
CloseQueue ==
    /\ closePc = 0
    /\ \E f \in StoreErrs :
         /\ Spend(f)
         /\ frontier' = IF f THEN frontier ELSE CleanupFrontier(frontier)
    /\ closePc' = 1
    /\ UNCHANGED <<qvars, dbvars, cancelled, cvars, pvars, ivars, rvars, fvars>>

\* url.go 112 close(cq.out), crawler.go 73 close(c.out), process.go 159
\* close(p.queue), process.go 160 close(p.index), in this order
CloseChannel ==
    /\ closePc \in 1..4
    /\ closePc' = closePc + 1
    /\ UNCHANGED <<qvars, frontier, dbvars, cancelled, faults, cvars, pvars, ivars,
                   rvars, fvars>>

\* url.go 51-56: items, ok := <-cq.in with ok false; handleInputChannelClosed
\* logs Len, then cq.cancel() and return
QClosed ==
    /\ qpc = "select"
    /\ PQueueClosed
    /\ \E f \in StoreErrs : Spend(f)
    /\ cancelled' = TRUE
    /\ qpc' = "done"
    /\ UNCHANGED <<rev, bufSize, buffer, top, activeOut, deqRes, dequeued,
                   frontier, dbvars, cvars, pvars, ivars, closePc,
                   rvars, fvars>>

\* the Fetcher returns on a closed input without cancelling
CClosedNoCancel ==
    /\ cpc = "recv"
    /\ CqOutClosed
    /\ cpc' = "done"
    /\ UNCHANGED <<qvars, frontier, dbvars, cancelled, faults, cmsg, pvars, ivars,
                   closePc,
                   rvars, fvars>>

\* crawler.go 45-50: cm, ok := <-c.in with ok false; c.cancel() and return
CClosed ==
    /\ cpc = "recv"
    /\ CqOutClosed
    /\ cancelled' = TRUE
    /\ cpc' = "done"
    /\ UNCHANGED <<qvars, frontier, dbvars, faults, cmsg, pvars, ivars, closePc, rvars, fvars>>

\* process.go 50-55: pc, ok := <-p.in with ok false; p.cancel() and return
PClosed ==
    /\ ppc = "recv"
    /\ COutClosed
    /\ cancelled' = TRUE
    /\ ppc' = "done"
    /\ UNCHANGED <<qvars, frontier, dbvars, faults, cvars, pmsg, sendIdx, sendQ,
                   ivars, closePc,
                   rvars, fvars>>

\* part_011 62-67: im, ok := <-idx.in with ok false; idx.cancel() and return
IClosed ==
    /\ ipc = "recv"
    /\ PIndexClosed
    /\ cancelled' = TRUE
    /\ ipc' = "done"
    /\ UNCHANGED <<qvars, frontier, dbvars, faults, cvars, pvars, imsg, tx, ierr,
                   closePc,
                   rvars, fvars>>

\* a send on a closed channel panics: the process ends, with it every
\* goroutine that has not returned
Panic ==
    /\ qpc' = (IF qpc = "done" THEN "done" ELSE "panic")
    /\ cpc' = (IF cpc = "done" THEN "done" ELSE "panic")
    /\ ppc' = (IF ppc = "done" THEN "done" ELSE "panic")
    /\ ipc' = (IF ipc = "done" THEN "done" ELSE "panic")
    /\ sendIdx' = "idle"
    /\ sendQ' = "idle"
    /\ closePc' = 6
    /\ UNCHANGED <<rev, bufSize, buffer, top, activeOut, deqRes, dequeued,
                   frontier, dbvars, cancelled, faults, cmsg, pmsg, imsg, tx, ierr,
                   rvars, fvars>>

\* url.go 49: the select takes case activeOut <- top on the closed cq.out
QEmitPanic == qpc = "select" /\ activeOut /\ CqOutClosed /\ Panic

\* crawler.go 59: c.out <- ProcessorMessage on the closed c.out
CSendPanic == cpc = "send" /\ COutClosed /\ Panic

\* process.go 150: the select takes case p.queue <- msgs on the closed p.queue
PSendQPanic == sendQ = "pending" /\ PQueueClosed /\ Panic

\* process.go 137: the select takes case p.index <- msg on the closed p.index
PSendIdxPanic == sendIdx = "pending" /\ PIndexClosed /\ Panic

(***************************************************************************)
(* Specifications                                                          *)
(***************************************************************************)
QueueDriver == QRunStart \/ QPrepare \/ QEmit \/ QAccept
Fetcher == CFetchFail \/ CFetchOk \/ CSend
Processor == PFail \/ PExtract \/ PJoin
Indexer == IRecv \/ IBegin \/ IDoc \/ ITerms \/ IPostings \/ IFlip \/ ICommit
Cancellation ==
    \/ Cancel \/ QCancelled \/ CCancelled \/ PCancelled
    \/ PSendIdxCancelled \/ PSendQCancelled \/ ICancelled

Next == QueueDriver \/ Fetcher \/ Processor \/ Indexer \/ Cancellation

\* the pipeline over sql.go 154-287
Spec == Init /\ [][Next]_vars

\* the four stages, never cancelled
NextLive == QueueDriver \/ Fetcher \/ Processor \/ Indexer

\* the pipeline over sql.go 1-152, without cancellation and store errors
InitRev1 == InitRev(1) /\ faults = 0
SpecRev1 == InitRev1 /\ [][NextLive]_vars

\* no cancellation, no store error, every task scheduled fairly
InitLive == InitRev(2) /\ faults = 0
SpecLive ==
    /\ InitLive
    /\ [][NextLive]_vars
    /\ WF_vars(QueueDriver)
    /\ WF_vars(Fetcher)
    /\ WF_vars(Processor)
    /\ WF_vars(Indexer)

\* Processor.Run 50-56 called with a message no Fetcher sends: the URL of its
\* item does not parse
PRecvUnparsable ==
    /\ ppc = "recv"
    /\ ~cancelled
    /\ ~COutClosed
    /\ ppc' = "process"
    /\ pmsg' = FrontierItem(uBad, uBad, NoUrl, 0, StatusInProgress)
    /\ UNCHANGED <<qvars, frontier, dbvars, cancelled, closePc, faults, cvars, sendIdx,
                   sendQ, ivars, rvars, fvars>>

\* the pipeline with a Processor whose processMessage is also called with
\* such a message; no cancellation, no store errors
NextProcess == NextLive \/ PRecvUnparsable
SpecProcess == InitLive /\ [][NextProcess]_vars

\* the bodies a page may serve when it is fetched again
Bodies == {<<"x">>, <<"x", "y", "x">>, <<"y">>}

\* A later run reaches the Indexer with page u, which now serves words: the
\* run before ended with Close (sql.go 249-256: CleanupFrontier deletes the
\* Completed rows), NewIndex enqueued u again (InsertFIBatch), Dequeue marked
\* it InProgress and the Processor sent the entry of the body it parsed.
Recrawl(u, words) ==
    /\ ipc = "recv"
    /\ Len(dequeued) < MaxDequeues
    /\ LET item == NewFrontierItemFromSeed(u)
           fr == InsertFIBatch(CleanupFrontier(frontier), <<item>>).frontier
           ex == ProcessHtmlDocument(<<>>, words)
       IN  /\ StatusOf(fr, item.url_norm) = StatusUnvisited
           /\ frontier' = UpdateFIStatus(fr, item.url_norm, StatusInProgress)
           /\ dequeued' = Append(dequeued, [item EXCEPT !.status = StatusInProgress])
           /\ imsg' = NewIndexEntry(u, ex.Hash, ex.Len, ex.TermFreqs)
    /\ ipc' = "begin"
    /\ ierr' = "nil"
    /\ UNCHANGED <<rev, bufSize, buffer, qpc, top, activeOut, deqRes, dbvars,
                   cancelled, closePc, faults, cvars, pvars, tx,
                   rvars, fvars>>

Recrawls == \E u \in {uS, uA} : \E words \in Bodies : Recrawl(u, words)

\* the Indexer over runs that crawl the same pages again
InitReindex == InitRev(2) /\ bufSize = MaxBufSize
NextReindex ==
    Recrawls \/ IBegin \/ IDoc \/ ITerms \/ IPostings \/ IFlip \/ ICommit
SpecReindex == InitReindex /\ [][NextReindex]_vars

\* cancellation with fair scheduling: every stage takes its steps, and a
\* select whose Done arm stays ready eventually takes it
InitCancelLive == InitRev(2) /\ faults = 0
SpecCancelLive ==
    /\ InitCancelLive
    /\ [][Next]_vars
    /\ WF_vars(QueueDriver) /\ WF_vars(QCancelled)
    /\ WF_vars(Fetcher) /\ WF_vars(CCancelled)
    /\ WF_vars(Processor) /\ WF_vars(PCancelled)
    /\ WF_vars(PSendIdxCancelled) /\ WF_vars(PSendQCancelled)
    /\ WF_vars(Indexer) /\ WF_vars(ICancelled)

\* the pipeline shut down by Index.Close, without store errors
IndexClose == CloseQueue \/ CloseChannel
ClosedInput == QClosed \/ CClosed \/ PClosed \/ IClosed
ClosedOutput == QEmitPanic \/ CSendPanic \/ PSendQPanic \/ PSendIdxPanic
Observers ==
    \/ QCancelled \/ CCancelled \/ PCancelled
    \/ PSendIdxCancelled \/ PSendQCancelled \/ ICancelled
InitClose == InitRev(2) /\ faults = 0
NextClose ==
    \/ QueueDriver \/ Fetcher \/ Processor \/ Indexer \/ Observers
    \/ IndexClose \/ ClosedInput \/ ClosedOutput
SpecClose == InitClose /\ [][NextClose]_vars

\* the context is cancelled first, Index.Close is called after that
Shutdown == cancelled /\ IndexClose
NextShutdown ==
    \/ QueueDriver \/ Fetcher \/ Processor \/ Indexer \/ Cancellation
    \/ Shutdown \/ ClosedInput \/ ClosedOutput
SpecShutdown == InitClose /\ [][NextShutdown]_vars

\* the same shutdown with store errors
InitCloseFaulty == InitRev(2) /\ bufSize = MaxBufSize
SpecCloseFaulty == InitCloseFaulty /\ [][NextClose]_vars

(***************************************************************************)
(* Ranker: internal/rank/ranker.go over the statements of                  *)
(* internal/store/rank.go.  The ranker is a process of its own             *)
(* (cmd/rank/main.go) with its own context.                                *)
(***************************************************************************)
\* NewRanker: maxRetries
maxRetries == 5
\* NewRanker: baseDelay, in ms
baseDelay == 100
\* retryWithBackoff: the cap of the delay ("5*time.Second"), in ms
delayCap == 5000
\* runs of updateRankings per behaviour (the initial one and the ticks)
MaxRuns == 2
\* pages indexed while the ranker runs
MaxRankDocs == 1

\* the phase argument of the three retryWithBackoff calls of updateRankings
Phases == <<"document_frequency", "inverse_document_frequency", "document_norms">>

RECURSIVE Pow2(_)
Pow2(n) == IF n = 0 THEN 1 ELSE 2 * Pow2(n - 1)

\* the delay grows by baseDelay with every attempt
BackoffDelayLinear(k) == Min(baseDelay * k, delayCap)

\* retryWithBackoff 35-36: the delay before attempt k > 0
BackoffDelay(k) == Min(baseDelay * Pow2(k - 1), delayCap)

\* updateDocumentFrequencyStmt: df of every term that has postings
updateDocumentFrequencyStmt(tdf, t, p) ==
    LET withP == {r.id : r \in t} \cap {q.term_id : q \in p} IN
    {x \in tdf : x.id \notin withP}
    \cup {[id |-> i, df |-> Cardinality({q \in p : q.term_id = i})] : i \in withP}

\* setZeroDfForTermsWithNoPostingsStmt: df = 0 where df is NULL
setZeroDfForTermsWithNoPostingsStmt(tdf, t) ==
    tdf \cup {[id |-> r.id, df |-> 0] : r \in {r \in t : ~\E x \in tdf : x.id = r.id}}

\* updateInverseDocumentFrequencyStmt: every term row gets
\* LN((N + 1) / (df + 1)) + 1 with N the number of docs; NULL where df is NULL
updateInverseDocumentFrequencyStmt(tdf, t, d) ==
    {[id |-> x.id, n |-> Cardinality(d), df |-> x.df]
       : x \in {x \in tdf : \E r \in t : r.id = x.id}}

\* updateDocumentNormsStmt: every doc that has postings gets the norm over
\* its postings joined with terms; SUM skips the terms whose idf is NULL and
\* is NULL when it has nothing to add
updateDocumentNormsStmt(dn, d, p, tidf) ==
    LET withP == {r.id : r \in d} \cap {q.doc_id : q \in p}
        parts(i) == {[term_id |-> q.term_id, tf_raw |-> q.tf_raw,
                      n |-> (CHOOSE x \in tidf : x.id = q.term_id).n,
                      df |-> (CHOOSE x \in tidf : x.id = q.term_id).df]
                       : q \in {q \in p : /\ q.doc_id = i
                                          /\ \E x \in tidf : x.id = q.term_id}}
    IN  {x \in dn : x.id \notin withP}
        \cup {[id |-> i, parts |-> parts(i)] : i \in {i \in withP : parts(i) # {}}}

\* setZeroNormForDocsWithNoPostingsStmt: norm = 0 where norm is NULL
setZeroNormForDocsWithNoPostingsStmt(dn, d) ==
    dn \cup {[id |-> r.id, parts |-> {}]
               : r \in {r \in d : ~\E x \in dn : x.id = r.id}}

\* how the operation of a phase may end: "nil", "err1" (its first Exec
\* failed), "err2" (its second Exec failed, the first is committed); with the
\* context cancelled the first Exec fails
Outcomes(ph) ==
    IF rctx THEN {"err1"}
    ELSE IF ph = 2 THEN {"nil", "err1"}
    ELSE {"nil", "err1", "err2"}

\* UpdateDocumentFrequency, UpdateInverseDocumentFrequency and
\* UpdateDocumentNorms on the pool: every Exec commits on its own.
\* [termDf, termIdf, docNorm]
RunOperation(ph, o) ==
    LET df1 == updateDocumentFrequencyStmt(termDf, terms, postings)
        nm1 == updateDocumentNormsStmt(docNorm, docs, postings, termIdf)
        same == [termDf |-> termDf, termIdf |-> termIdf, docNorm |-> docNorm]
    IN  IF o = "err1" THEN same
        ELSE IF ph = 1
        THEN [same EXCEPT !.termDf =
                 IF o = "err2" THEN df1
                 ELSE setZeroDfForTermsWithNoPostingsStmt(df1, terms)]
        ELSE IF ph = 2
        THEN [same EXCEPT !.termIdf =
                 updateInverseDocumentFrequencyStmt(termDf, terms, docs)]
        ELSE [same EXCEPT !.docNorm =
                 IF o = "err2" THEN nm1
                 ELSE setZeroNormForDocsWithNoPostingsStmt(nm1, docs)]

\* a failed phase is followed by the next one all the same
updateRankingsIgnoresErr(ph, a, err) ==
    IF err # "nil" /\ a < maxRetries
    THEN [rpc |-> "wait", rphase |-> ph, attempt |-> a + 1, rres |-> "none"]
    ELSE IF ph < Len(Phases)
    THEN [rpc |-> "op", rphase |-> ph + 1, attempt |-> 0, rres |-> "none"]
    ELSE [rpc |-> "idle", rphase |-> ph, attempt |-> a, rres |-> err]

\* a run that failed ends the service
updateRankingsStopsOnErr(ph, a, err) ==
    IF err = "nil"
    THEN IF ph < Len(Phases)
         THEN [rpc |-> "op", rphase |-> ph + 1, attempt |-> 0, rres |-> "none"]
         ELSE [rpc |-> "idle", rphase |-> ph, attempt |-> a, rres |-> "nil"]
    ELSE IF a < maxRetries
    THEN [rpc |-> "wait", rphase |-> ph, attempt |-> a + 1, rres |-> "none"]
    ELSE [rpc |-> "stopped", rphase |-> ph, attempt |-> a, rres |-> err]

\* retryWithBackoff 53-72 and updateRankings 101-124: where the ranker goes
\* when the operation of phase ph returned err on attempt a, and what
\* updateRankings returns when that ends the run
updateRankings(ph, a, err) ==
    IF err = "nil"
    THEN IF ph < Len(Phases)
         THEN [rpc |-> "op", rphase |-> ph + 1, attempt |-> 0, rres |-> "none"]
         ELSE [rpc |-> "idle", rphase |-> ph, attempt |-> a, rres |-> "nil"]
    ELSE IF a < maxRetries
    THEN [rpc |-> "wait", rphase |-> ph, attempt |-> a + 1, rres |-> "none"]
    ELSE [rpc |-> "idle", rphase |-> ph, attempt |-> a, rres |-> err]

\* updateRankings 98-101: a run starts with phase 1, attempt 0
BeginRun ==
    /\ rpc' = "op"
    /\ rphase' = 1
    /\ attempt' = 0
    /\ delay' = 0
    /\ runs' = runs + 1
    /\ invoked' = <<>>
    /\ UNCHANGED <<pipeline, fvars, rres, rctx, termDf, termIdf, docNorm>>

\* Start 79-82: the initial run
RStart ==
    /\ rpc = "start"
    /\ BeginRun

\* Start 89-93: case <-ticker.C
RTick ==
    /\ rpc = "idle"
    /\ runs < MaxRuns
    /\ BeginRun

\* retryWithBackoff 53-68: operation(ctx) and what follows from its result
ROp ==
    /\ rpc = "op"
    /\ \E o \in Outcomes(rphase) :
         LET err == IF o = "nil" THEN "nil" ELSE IF rctx THEN "ctx" ELSE "store"
             cols == RunOperation(rphase, o)
             nx == updateRankings(rphase, attempt, err)
         IN  /\ termDf' = cols.termDf
             /\ termIdf' = cols.termIdf
             /\ docNorm' = cols.docNorm
             /\ rpc' = nx.rpc
             /\ rphase' = nx.rphase
             /\ attempt' = nx.attempt
             /\ rres' = IF nx.rpc = "idle" THEN nx.rres ELSE rres
             /\ delay' = IF nx.rpc = "wait" THEN BackoffDelay(nx.attempt) ELSE 0
             /\ invoked' = Append(invoked, [phase |-> Phases[rphase],
                                            attempt |-> attempt,
                                            waited |-> delay,
                                            ok |-> err = "nil"])
    /\ UNCHANGED <<pipeline, fvars, runs, rctx>>

\* retryWithBackoff 48-50: case <-time.After(delay) wakes the select
RWait ==
    /\ rpc = "wait"
    /\ ~rctx
    /\ rpc' = "op"
    /\ UNCHANGED <<pipeline, fvars, rphase, attempt, delay, rres, runs, rctx, invoked,
                   termDf, termIdf, docNorm>>

\* retryWithBackoff 46-47: case <-ctx.Done(), updateRankings returns ctx.Err()
RWaitCancelled ==
    /\ rpc = "wait"
    /\ rctx
    /\ rpc' = "idle"
    /\ rres' = "ctx"
    /\ delay' = 0
    /\ UNCHANGED <<pipeline, fvars, rphase, attempt, runs, rctx, invoked,
                   termDf, termIdf, docNorm>>

\* Start 86-88: case <-ctx.Done()
RStop ==
    /\ rpc = "idle"
    /\ rctx
    /\ rpc' = "stopped"
    /\ UNCHANGED <<pipeline, fvars, rphase, attempt, delay, rres, runs, rctx, invoked,
                   termDf, termIdf, docNorm>>

\* cmd/rank/main.go 32-38: SIGINT or SIGTERM, cancel()
RCancel ==
    /\ ~rctx
    /\ rpc # "stopped"
    /\ rctx' = TRUE
    /\ UNCHANGED <<pipeline, fvars, rpc, rphase, attempt, delay, rres, runs, invoked,
                   termDf, termIdf, docNorm>>

Ranker == RStart \/ RTick \/ ROp \/ RWait
RankerCancel == RCancel \/ RWaitCancelled \/ RStop

\* pages reach the Indexer while the ranker runs
RankFeed == Len(dequeued) < MaxRankDocs /\ Recrawls

\* the ranker next to an Indexer that commits
InitRank == InitRev(2) /\ bufSize = MaxBufSize /\ faults = 0
NextRank ==
    \/ Ranker \/ RankerCancel
    \/ RankFeed \/ IBegin \/ IDoc \/ ITerms \/ IPostings \/ IFlip \/ ICommit
SpecRank == InitRank /\ [][NextRank]_vars

(***************************************************************************)
(* Text scanner: internal/extract/scan.go.  A string is a sequence of      *)
(* one-character strings.                                                  *)
(***************************************************************************)
\* bytes bufio.Scanner hands to the split function at a time (4096 in bufio)
ScanBufSize == 32

Uppers == <<"A", "C", "E", "H", "T", "X", "Y">>
Lowers == <<"a", "c", "e", "h", "t", "x", "y">>
Digits == <<"0", "1", "2", "3", "4", "5", "6", "7", "8", "9">>

\* the embedded stop_words.txt: one word per line, trimmed
stopWords == {<<"t", "h", "e">>, <<"a">>}

\* isAlphaNumericRune: unicode.IsLetter(r) || unicode.IsNumber(r)
isAlphaNumericRune(r) ==
    r \in Range(Uppers) \cup Range(Lowers) \cup {"w", "z"} \cup Range(Digits)

\* unicode.ToLower on a rune
ToLowerRune(r) ==
    IF r \in Range(Uppers)
    THEN Lowers[CHOOSE k \in 1..Len(Uppers) : Uppers[k] = r]
    ELSE r

\* bytes.ToLower, strings.ToLower
ToLower(w) == [k \in 1..Len(w) |-> ToLowerRune(w[k])]

\* ScanAlphaNumericWord: [advance, token, hasToken]; what it returns does not
\* depend on isEof.  Skip(i, alnum) is the first index from i on whose rune
\* is (alnum) or is not (~alnum) alphanumeric, Len(data) + 1 if there is none
ScanAlphaNumericWord(data, isEof) ==
    LET RECURSIVE Skip(_, _)
        Skip(i, alnum) ==
            IF i > Len(data) \/ isAlphaNumericRune(data[i]) = alnum THEN i
            ELSE Skip(i + 1, alnum)
        start == Skip(1, TRUE) - 1
        end == Skip(start + 1, FALSE) - 1
    IN  IF end < Len(data)
        THEN [advance |-> end + 1, token |-> ToLower(SubSeq(data, start + 1, end)),
              hasToken |-> TRUE]
        ELSE IF start < Len(data)
        THEN [advance |-> end, token |-> ToLower(SubSeq(data, start + 1, end)),
              hasToken |-> TRUE]
        ELSE [advance |-> end, token |-> <<>>, hasToken |-> FALSE]

\* bufio.Scanner.Scan over one filling of its buffer: the split function is
\* called on what is left until it has advanced over all of it
RECURSIVE ScanBuffer(_)
ScanBuffer(data) ==
    IF data = <<>> THEN <<>>
    ELSE LET r == ScanAlphaNumericWord(data, FALSE) IN
         (IF r.hasToken THEN <<r.token>> ELSE <<>>)
         \o ScanBuffer(SubSeq(data, r.advance + 1, Len(data)))

\* bufio.Scanner over a strings.Reader: the buffer is filled again only when
\* it is empty, with the next ScanBufSize bytes
RECURSIVE Scan(_)
Scan(data) ==
    IF Len(data) <= ScanBufSize THEN ScanBuffer(data)
    ELSE ScanBuffer(SubSeq(data, 1, ScanBufSize))
         \o Scan(SubSeq(data, ScanBufSize + 1, Len(data)))

\* the digits of math.MaxInt64, 9223372036854775807
MaxInt64 == <<9, 2, 2, 3, 3, 7, 2, 0, 3, 6, 8, 5, 4, 7, 7, 5, 8, 0, 7>>

\* isIntegerWord: strconv.Atoi(w) returns no error; Atoi fails on a rune that
\* is no decimal digit and on a value that does not fit an int (64 bits)
isIntegerWord(w) ==
    LET DigitVal(c) == (CHOOSE k \in 1..Len(Digits) : Digits[k] = c) - 1
        RECURSIVE StripZeros(_)
        StripZeros(v) == IF v # <<>> /\ Head(v) = "0" THEN StripZeros(Tail(v)) ELSE v
        RECURSIVE LeqDigits(_, _)
        LeqDigits(a, b) ==
            IF a = <<>> THEN TRUE
            ELSE IF Head(a) # Head(b) THEN Head(a) < Head(b)
            ELSE LeqDigits(Tail(a), Tail(b))
        d == StripZeros(w)
    IN  /\ w # <<>>
        /\ \A k \in 1..Len(w) : w[k] \in Range(Digits)
        /\ \/ Len(d) < Len(MaxInt64)
           \/ /\ Len(d) = Len(MaxInt64)
              /\ LeqDigits([k \in 1..Len(d) |-> DigitVal(d[k])], MaxInt64)

\* ScanWords, ScanWordsFromString: the tokens that are no stop word and no
\* integer, lowercased
ScanWords(data) ==
    LET toks == Scan(data)
        keep == SelectSeq(toks, LAMBDA w : w \notin stopWords /\ ~isIntegerWord(w))
    IN  [k \in 1..Len(keep) |-> ToLower(keep[k])]

\* scan.go 91-93: ScanWordsFromString of a text, and of the same text in
\* lower case
ScanCall ==
    /\ input.fn = "scan"
    /\ output = NoCall
    /\ output' = [fn |-> "scan", words |-> ScanWords(input.arg.text),
                  lower |-> ScanWords(ToLower(input.arg.text))]
    /\ UNCHANGED <<pipeline, rvars, input>>

(***************************************************************************)
(* HtmlParser.Parse and its language gate.  A parsed document is the       *)
(* attribute list of its root html element, each attribute a [Key, Val]    *)
(* with the key as html.Parse spells it (lower case).                      *)
(***************************************************************************)
\* language.go 9: English Language = iota
English == 0

\* a value of length two or three is accepted when it is the code of a language
\* the parser supports, in any letter case
isSupportedLanguageNodeAnyCase(langs, node) ==
    LET at == {k \in 1..Len(node.Attr) : node.Attr[k].Key = "lang"}
        val == node.Attr[CHOOSE k \in at : \A j \in at : k <= j].Val
    IN  IF ~node.html \/ at = {} THEN TRUE
        ELSE /\ ToLower(val) \in {<<"e", "n">>, <<"e", "n", "g">>}
             /\ English \in Range(langs)

\* isSupportedLanguageNode over the Language of language.go 50-84: the first
\* lang attribute of the html element decides; -1 is the Language of a code
\* that is not known
isSupportedLanguageNode(langs, node) ==
    LET at == {k \in 1..Len(node.Attr) : node.Attr[k].Key = "lang"}
        val == node.Attr[CHOOSE k \in at : \A j \in at : k <= j].Val
        GetLanguageFromIsoCode639_1 == IF val = <<"e", "n">> THEN English ELSE 0 - 1
        GetLanguageFromIsoCode639_3 == IF val = <<"e", "n", "g">> THEN English ELSE 0 - 1
    IN  IF ~node.html \/ at = {} THEN TRUE
        ELSE IF Len(val) = 2 THEN GetLanguageFromIsoCode639_1 \in Range(langs)
        ELSE IF Len(val) = 3 THEN GetLanguageFromIsoCode639_3 \in Range(langs)
        ELSE FALSE

\* part_003 30-41: Parse of a parser for English; html.Parse fails only when
\* the reader does
ParseCall ==
    /\ input.fn = "parse"
    /\ output = NoCall
    /\ output' = [fn |-> "parse",
                  err |-> IF input.arg.readErr THEN "read"
                          ELSE IF ~isSupportedLanguageNode(<<English>>, input.arg.doc)
                          THEN "ErrorNotSupportedLanguage"
                          ELSE "nil"]
    /\ UNCHANGED <<pipeline, rvars, input>>

\* process.go 82-127: ProcessHtmlDocument of a document without text; the
\* document is the sequence of its element nodes in the order DfsNodes
\* visits them, each a [tag, Attr]; every href of an <a> is appended (90-96)
LinksCall ==
    /\ input.fn = "links"
    /\ output = NoCall
    /\ LET RECURSIVE Hrefs(_)
           Hrefs(attrs) ==
               IF attrs = <<>> THEN <<>>
               ELSE (IF Head(attrs).Key = "href" THEN <<Head(attrs).Val>> ELSE <<>>)
                    \o Hrefs(Tail(attrs))
           RECURSIVE Dfs(_)
           Dfs(nodes) ==
               IF nodes = <<>> THEN <<>>
               ELSE (IF Head(nodes).tag = "a" THEN Hrefs(Head(nodes).Attr) ELSE <<>>)
                    \o Dfs(Tail(nodes))
       IN  output' = [fn |-> "links",
                      ex |-> ProcessHtmlDocument(Dfs(input.arg.nodes), <<>>)]
    /\ UNCHANGED <<pipeline, rvars, input>>

(***************************************************************************)
(* Search: Server.handleQuery (internal/server/server.go) over SearchBM25  *)
(* (internal/store/search.go)                                              *)
(***************************************************************************)
\* tokenizeQuery: the tokens of the query, or an error for an empty query and
\* for a query without tokens.  [terms, err]
tokenizeQuery(query) ==
    IF query = <<>> THEN [terms |-> <<>>, err |-> TRUE]
    ELSE LET RECURSIVE Join(_)
             Join(w) == IF w = <<>> THEN "" ELSE Head(w) \o Join(Tail(w))
             toks == ScanWords(query)
             ts == [k \in 1..Len(toks) |-> Join(toks[k])]
         IN  [terms |-> ts, err |-> ts = <<>>]

\* searchBM25Stmt: the docs with len > 0 that match at least floor distinct
\* query terms (terms with a NULL df do not match), the limit best of them by
\* score.  The score is a real number that is not computed here: every choice
\* of limit docs is a possible result
searchBM25Stmt(d, t, p, tdf, qterms, floor, limit) ==
    LET Matched(doc) ==
            {tr.raw : tr \in {tr \in t : /\ tr.raw \in Range(qterms)
                                         /\ \E x \in tdf : x.id = tr.id
                                         /\ \E po \in p : /\ po.term_id = tr.id
                                                          /\ po.doc_id = doc.id}}
        cand == {doc \in d : /\ doc.len > 0
                             /\ Matched(doc) # {}
                             /\ Cardinality(Matched(doc)) >= floor}
    IN  {r \in SUBSET cand : Cardinality(r) = Min(limit, Cardinality(cand))}

\* SearchBM25: the floor handed to the statement is min(len(terms), 2).
\* [rows, err]
SearchBM25(d, t, p, tdf, qterms, limit) ==
    IF qterms = <<>> THEN {[rows |-> {}, err |-> TRUE]}
    ELSE {[rows |-> r, err |-> FALSE]
            : r \in searchBM25Stmt(d, t, p, tdf, qterms, Min(Len(qterms), 2),
                                   IF limit <= 0 THEN 10 ELSE limit)}

\* the limit is handed on as it came
EffectiveLimitUnclamped(limit) == limit

\* handleQuery 92-98: the limit handed to SearchBM25
EffectiveLimit(limit) ==
    IF limit <= 0 THEN 10 ELSE IF limit > 100 THEN 100 ELSE limit

\* handleQuery: the responses to req = [Query, Limit] (an absent limit
\* decodes to 0).  [status, terms, limit, rankings]
handleQuery(req) ==
    LET tq == tokenizeQuery(req.Query)
        limit == EffectiveLimit(req.Limit)
    IN  IF req.Query = <<>> \/ tq.err
        THEN {[status |-> 400, terms |-> <<>>, limit |-> limit, rankings |-> {}]}
        ELSE {[status |-> IF r.err THEN 500 ELSE 200, terms |-> tq.terms,
               limit |-> limit, rankings |-> r.rows]
                : r \in SearchBM25(docs, terms, postings, termDf, tq.terms, limit)}

\* POST /query
HandleQuery ==
    /\ input.fn = "query"
    /\ output = NoCall
    /\ output' \in handleQuery(input.arg)
    /\ UNCHANGED <<pipeline, rvars, input>>

(***************************************************************************)
(* NormalizeURL on a URL with a query.  A query is a sequence of           *)
(* <<key, value>> pairs; keys and values are numbers that stand for        *)
(* strings in their sort order.                                            *)
(***************************************************************************)
\* util.go 69-75: u.Query() groups the values by key in their order,
\* sort.Strings orders the values of a key, Encode writes the keys in order
QueryEncode(q) ==
    LET Before(a, b) == a[1] < b[1] \/ (a[1] = b[1] /\ a[2] <= b[2])
        RECURSIVE Insert(_, _)
        Insert(sorted, x) ==
            IF sorted = <<>> THEN <<x>>
            ELSE IF Before(x, Head(sorted)) THEN <<x>> \o sorted
            ELSE <<Head(sorted)>> \o Insert(Tail(sorted), x)
        RECURSIVE Sort(_)
        Sort(rest) ==
            IF rest = <<>> THEN <<>>
            ELSE Insert(Sort(Tail(rest)), Head(rest))
    IN  Sort(q)

\* util.go 56-83: NormalizeURL of the raw URL, and of what it returned
NormalizeCall ==
    /\ input.fn = "normalize"
    /\ \/ /\ output = NoCall
          /\ output' = [fn |-> "normalize", n |-> 1, of |-> input.arg,
                        url |-> NormalizeURL(input.arg.url),
                        query |-> QueryEncode(input.arg.query)]
       \/ /\ output # NoCall
          /\ output.n = 1
          /\ output' = [fn |-> "normalize", n |-> 2,
                        of |-> [url |-> output.url, query |-> output.query],
                        url |-> NormalizeURL(output.url),
                        query |-> QueryEncode(output.query)]
    /\ UNCHANGED <<pipeline, rvars, input>>

\* IndexDocumentInit (index.go 197-214) committed: the tables after entry e
IndexDocumentInit(db, e) ==
    LET r == insertDocumentInfo(db.docs, db.docSeq, e.Url, e.Domain, e.Hash, e.Len) IN
    IF r.err THEN {db}
    ELSE {[docs |-> r.docs, terms |-> tt.terms,
           postings |-> insertPostings(db.postings, r.id, tt.termIdFreqMap),
           docSeq |-> r.seq, termSeq |-> tt.seq]
            : tt \in insertTerms(db.terms, db.termSeq, e.TermFreqs)}

\* the pages of the indexes searched and what they may serve
CorpusPages == <<uS, uA, uD>>
CorpusBodies == {<<>>, <<"x">>, <<"x", "y">>, <<"y", "z">>}

\* the tables after the first n corpus pages were indexed with bodies b
RECURSIVE Corpus(_, _)
Corpus(b, n) ==
    IF n = 0
    THEN [docs |-> {}, terms |-> {}, postings |-> {}, docSeq |-> 0, termSeq |-> 0]
    ELSE LET ex == ProcessHtmlDocument(<<>>, b[n])
             e == NewIndexEntry(CorpusPages[n], ex.Hash, ex.Len, ex.TermFreqs)
             dbs == IndexDocumentInit(Corpus(b, n - 1), e)
         IN  CHOOSE db \in dbs : TRUE

\* terms.df after a ranker run over tables db
RankedDf(db) ==
    setZeroDfForTermsWithNoPostingsStmt(
        updateDocumentFrequencyStmt({}, db.terms, db.postings), db.terms)

\* the pipeline at rest over tables db whose df was ranked when only the
\* first ranked pages were indexed
InitOver(db, tdf) ==
    /\ rev = 2
    /\ bufSize = MaxBufSize
    /\ faults = 0
    /\ LET seeds == [k \in 1..Len(Seeds) |-> NewFrontierItemFromSeed(Seeds[k])]
           q == enqueueItems(2, <<>>, <<>>, bufSize, seeds, 1, {})
       IN  /\ buffer = q.buffer
           /\ frontier = q.frontier
    /\ docs = db.docs /\ terms = db.terms /\ postings = db.postings
    /\ docSeq = db.docSeq /\ termSeq = db.termSeq
    /\ cancelled = FALSE
    /\ closePc = 0
    /\ rpc = "start" /\ rphase = 1 /\ attempt = 0 /\ delay = 0
    /\ rres = "none" /\ runs = 0 /\ rctx = FALSE /\ invoked = <<>>
    /\ termDf = tdf /\ termIdf = {} /\ docNorm = {}
    /\ qpc = "start" /\ top = NoItem /\ activeOut = FALSE
    /\ deqRes = NoDeq /\ dequeued = <<>>
    /\ cpc = "recv" /\ cmsg = NoItem
    /\ ppc = "recv" /\ pmsg = NoItem /\ sendIdx = "idle" /\ sendQ = "idle"
    /\ ipc = "recv" /\ imsg = NoEntry /\ tx = NoTx /\ ierr = "nil"

\* the calls tried.  Query strings: "x", "x x", "X,x", "x y", "y z",
\* "x y z", "w", "w x", "the x", "42 x", "the", ""
Calls ==
    LET \* element nodes of the documents whose links are collected
        DocNodes ==
            {[tag |-> "a", Attr |-> <<[Key |-> "href", Val |-> "/x"]>>],
             [tag |-> "a", Attr |-> <<[Key |-> "class", Val |-> "c"],
                                      [Key |-> "href", Val |-> "/y"]>>],
             [tag |-> "a", Attr |-> <<[Key |-> "name", Val |-> "/x"]>>],
             [tag |-> "link", Attr |-> <<[Key |-> "href", Val |-> "/z"]>>]}
        \* values of the lang attribute of the documents parsed
        LangValues ==
            {<<>>,
             <<"e">>,
             <<"e", "n">>,
             <<"E", "N">>,
             <<"E", "n">>,
             <<"f", "r">>,
             <<"e", "n", "g">>,
             <<"E", "N", "G">>,
             <<"f", "r", "a">>,
             <<"e", "n", "g", "l">>,
             <<"e", "n", "-", "U", "S">>,
             <<"e", "n", " ">>}
    IN
    {[fn |-> "query", arg |-> [Query |-> q, Limit |-> l]]
       : q \in {<<"x">>, <<"x", " ", "x">>, <<"X", ",", "x">>, <<"x", " ", "y">>,
                <<"y", " ", "z">>, <<"x", " ", "y", " ", "z">>, <<"w">>,
                <<"w", " ", "x">>, <<"t", "h", "e", " ", "x">>,
                <<"4", "2", " ", "x">>, <<"t", "h", "e">>, <<>>},
         l \in {0 - 1, 0, 1, 2, 100, 101}}
    \cup
    {[fn |-> "normalize", arg |-> [url |-> Url("h", p, n, f), query |-> q]]
       : p \in {"", "/a"}, n \in 0..MaxSlashes, f \in BOOLEAN,
         q \in {<<>>, <<<<1, 1>>>>, <<<<2, 1>>, <<1, 1>>>>, <<<<1, 2>>, <<1, 1>>>>,
                <<<<1, 2>>, <<2, 1>>, <<1, 1>>>>, <<<<1, 1>>, <<1, 1>>>>}}
    \cup
    {[fn |-> "parse", arg |-> [readErr |-> e, doc |-> [html |-> TRUE, Attr |-> a]]]
       : e \in BOOLEAN,
         a \in {<<>>, <<[Key |-> "class", Val |-> <<"e", "n">>]>>,
                <<[Key |-> "xml:lang", Val |-> <<"f", "r">>]>>}
             \cup {<<[Key |-> "lang", Val |-> v]>> : v \in LangValues}
             \cup {<<[Key |-> "class", Val |-> <<"x">>], [Key |-> "lang", Val |-> v]>>
                     : v \in LangValues}}
    \cup
    {[fn |-> "links", arg |-> [nodes |-> n]]
       : n \in UNION {[1..k -> DocNodes] : k \in 0..MaxNodes}}
    \cup
    {[fn |-> "scan", arg |-> [text |-> t]]
       : t \in {<<"T", "h", "e", " ", "C", "a", "t">>,
                <<"T", "H", "E", " ", "c", "a", "t", " ", "h", "a", "t">>,
                <<"a", " ", "A", " ", "x">>,
                <<"4", "2", " ", "x">>,
                <<"a", "1", " ", "2", "B">>,
                <<"0", "0", "7", " ", "x">>,
                <<"x", ",", "Y", ";", "z">>,
                <<"9", "2", "2", "3", "3", "7", "2", "0", "3", "6", "8", "5", "4", "7", "7", "5", "8", "0", "7">>,
                <<"9", "2", "2", "3", "3", "7", "2", "0", "3", "6", "8", "5", "4", "7", "7", "5", "8", "0", "8">>,
                <<"1", "2", "3", "4", "5", "6", "7", "8", "9", "0", "1", "2", "3", "4", "5", "6", "7", "8", "9", "0">>,
                <<"0", "0", "0", "0", "0", "0", "0", "0", "0", "0", "0", "0", "0", "0", "0", "0", "0", "0", "0", "0", "0", "4", "2", " ", "y">>,
                <<"9", "9", "9", "9", "9", "9", "9", "9", "9", "9", "9", "9", "9", "9", "9", "9", "9", "9", " ", "x">>,
                <<>>,
                <<" ", ",", ";", " ">>,
                <<"x", "x", "x", "x", "x", "x", "x", "x", "x", "x", "x", "x", "x", "x", "x", "x", "x", "x", "x", "x", "x", "x", "x", "x", "x", "x", "x", "x", "x", " ", "T", "h", "e", "y">>,
                <<"x", "x", "x", "x", "x", "x", "x", "x", "x", "x", "x", "x", "x", "x", "x", "x", "x", "x", "x", "x", "x", "x", "x", "x", "x", "x", "x", "x", "x", "x", " ", "1", "2", "3">>,
                <<"x", "y", " ", "x", "y", " ", "x", "y", " ", "x", "y", " ", "x", "y", " ", "x", "y", " ", "x", "y", " ", "x", "y", " ", "x", "y", " ", "x", "y", " ", " ", "t", "h", "e", "H", "a", "t">>}}

\* a server and the functions of the packages, each run on its own over an
\* index at rest
InitCalls ==
    \E b \in [1..Len(CorpusPages) -> CorpusBodies] :
    \E ranked \in 0..Len(CorpusPages) :
       /\ InitOver(Corpus(b, Len(CorpusPages)), RankedDf(Corpus(b, ranked)))
       /\ input \in Calls
       /\ input.fn # "query" => ranked = 0 /\ \A k \in DOMAIN b : b[k] = <<>>
       /\ output = NoCall
NextCalls == HandleQuery \/ NormalizeCall \/ ScanCall \/ ParseCall \/ LinksCall
SpecCalls == InitCalls /\ [][NextCalls]_vars

(***************************************************************************)
(* Properties                                                              *)
(***************************************************************************)
Norms == {NormalizeURL(u) : u \in Pages}

DocPostings(d) == {p \in postings : p.doc_id = d.id}

\* C1: outside the Indexer's transaction a docs row is never seen without
\* every posting (and term) of its document or while its frontier row is not
\* Completed, and a Completed frontier row is never seen without its docs row.
C1_IndexedAtomically ==
    /\ \A d \in docs :
         LET tf == Extracted(d.url).TermFreqs IN
         /\ Cardinality(DocPostings(d)) = Cardinality(DOMAIN tf)
         /\ \A w \in DOMAIN tf :
              \E t \in terms : /\ t.raw = w
                               /\ [term_id |-> t.id, doc_id |-> d.id,
                                   tf_raw |-> tf[w]] \in postings
         /\ \A i \in RowsByNorm(frontier, NormalizeURL(d.url)) :
              frontier[i].status = StatusCompleted
    /\ \A i \in 1..Len(frontier) :
         frontier[i].status = StatusCompleted =>
            \E d \in docs : d.url = frontier[i].url

\* a document is committed and the transaction of a later message has
\* written its docs row and its postings
C1_Witness ==
    /\ docs # {}
    /\ tx.open
    /\ ipc = "commit"
    /\ tx.docs # docs
    /\ tx.postings # postings

\* C2: within one run no frontier item (url_norm) is returned by dequeue twice.
C2_NoItemDequeuedTwice ==
    \A i, j \in 1..Len(dequeued) :
        i # j => dequeued[i].url_norm # dequeued[j].url_norm

\* the batch the Processor's sendToQueue offers
Batch == getFrontierMessages(pmsg, Links(pmsg.url))

\* the step on which the driver accepts a batch and enqueues it
AcceptStep ==
    /\ qpc = "select" /\ qpc' = "prepare"
    /\ sendQ = "pending" /\ sendQ' = "done"

UniqueNorm ==
    \A i, j \in 1..Len(frontier) :
        i # j => frontier[i].url_norm # frontier[j].url_norm

\* C3: the frontier holds at most one row per url_norm; enqueueing an item
\* whose url_norm is persisted inserts nothing, returns no error and leaves
\* the persisted rows (status, depth, parent) as they were.
C3_OneRowPerUrlNorm ==
    /\ []UniqueNorm
    /\ [](sendQ = "pending" =>
            \A k \in 1..Len(Batch) :
               RowsByNorm(frontier, Batch[k].url_norm) # {} =>
                  LET e == Enqueue(buffer, frontier, bufSize, <<Batch[k]>>, FALSE) IN
                  e.err = "nil" /\ e.frontier = frontier)
    /\ [][AcceptStep =>
            /\ Len(frontier') >= Len(frontier)
            /\ \A i \in 1..Len(frontier) : frontier'[i] = frontier[i]
            /\ \A i \in (Len(frontier) + 1)..Len(frontier') :
                  RowsByNorm(frontier, frontier'[i].url_norm) = {}]_vars

\* a batch was enqueued of which one item met a row persisted earlier, under
\* another parent and no longer Unvisited, and another item was inserted
C3_Witness ==
    /\ sendQ = "done"
    /\ \E k \in 1..Len(Batch) :
         \E i \in RowsByNorm(frontier, Batch[k].url_norm) :
            /\ frontier[i].parent_url # Batch[k].parent_url
            /\ frontier[i].status # StatusUnvisited
    /\ \E k \in 1..Len(Batch) :
         \E i \in RowsByNorm(frontier, Batch[k].url_norm) :
            frontier[i] = Batch[k]

\* C4: a frontier row's status only changes Unvisited -> InProgress,
\* InProgress -> Completed or InProgress -> Failed.
C4_StatusTransitions ==
    [][\A i \in 1..Len(frontier) : \A j \in 1..Len(frontier') :
          frontier[i].url_norm = frontier'[j].url_norm =>
             LET a == frontier[i].status
                 b == frontier'[j].status
             IN  \/ a = b
                 \/ a = StatusUnvisited /\ b = StatusInProgress
                 \/ a = StatusInProgress /\ b \in {StatusCompleted, StatusFailed}]_vars

\* rows have gone all the way to Completed and to Failed
C4_Witness ==
    /\ \E i \in 1..Len(frontier) : frontier[i].status = StatusCompleted
    /\ \E i \in 1..Len(frontier) : frontier[i].status = StatusFailed
    /\ \E i \in 1..Len(frontier) : frontier[i].status = StatusInProgress

\* C5: when the driver emits a CrawlerMessage, the item's persisted status is
\* InProgress.
C5_EmittedIsInProgress ==
    [][(qpc = "select" /\ activeOut /\ cpc = "recv" /\ cpc' = "fetch") =>
          StatusOf(frontier, top.url_norm) = StatusInProgress]_vars

\* C6: when persisting the InProgress flip fails, Dequeue returns an error and
\* the item is still at the head of the buffer.
C6_FailedFlipKeepsBuffer ==
    [][(qpc = "prepare" /\ deqRes'.stage = "flip" /\ deqRes'.err = "error") =>
          /\ buffer' # <<>>
          /\ Head(buffer').url_norm = deqRes'.item.url_norm]_vars

\* C7: without cancellation and store errors, under fair scheduling, an item
\* that is InProgress eventually is Completed or Failed.
C7_InProgressEventuallyFinal ==
    \A n \in Norms :
        (StatusOf(frontier, n) = StatusInProgress)
            ~> (StatusOf(frontier, n) \in {StatusCompleted, StatusFailed})

\* C8: an item returned by Dequeue has no Unvisited row of smaller depth that
\* was persisted before it.
C8_BreadthFirst ==
    (qpc = "select" /\ activeOut) =>
        \A t \in RowsByNorm(frontier, top.url_norm) :
           \A i \in 1..Len(frontier) :
              (frontier[i].status = StatusUnvisited /\ frontier[i].depth < top.depth)
                 => i > t

\* C9: the depth of the items Dequeue returns is non-decreasing.
C9_DepthNonDecreasing ==
    \A i, j \in 1..Len(dequeued) :
        i < j => dequeued[i].depth <= dequeued[j].depth

\* the step on which the Indexer rejects an entry whose (domain, hash) is
\* in docs under another URL
DedupStep ==
    /\ ipc = "doc" /\ ipc' = "recv" /\ ierr' = "dedup"
    /\ \E d \in docs : /\ d.domain = imsg.Domain /\ d.hash = imsg.Hash
                       /\ d.url # imsg.Url

UniqueDomainHash ==
    \A a, b \in docs : (a.domain = b.domain /\ a.hash = b.hash) => a = b

DedupInsertsNothing ==
    /\ docs' = docs /\ terms' = terms /\ postings' = postings
    /\ \A d \in docs : d.domain = imsg.Domain /\ d.hash = imsg.Hash =>
          StatusOf(frontier', NormalizeURL(d.url)) = StatusCompleted

IndexAbortStep ==
    /\ ipc \in {"begin", "doc", "terms", "postings", "flip", "commit"}
    /\ ipc' = "recv"
    /\ ierr' # "nil"

\* Index.handleError's own store call failed on this step
MarkFailedFailed ==
    \/ cancelled
    \/ faults' < faults - (IF ierr' = "store" THEN 1 ELSE 0)

NothingPersists ==
    /\ docs' = docs /\ terms' = terms /\ postings' = postings
    /\ tx' = NoTx
    /\ \A i \in 1..Len(frontier') :
          frontier'[i].url_norm = imsg.UrlNorm =>
             frontier'[i].status # StatusCompleted

RECURSIVE SumTf(_)
SumTf(ps) ==
    IF ps = {} THEN 0
    ELSE LET p == CHOOSE q \in ps : TRUE IN p.tf_raw + SumTf(ps \ {p})

\* the step on which the Indexer's transaction commits
CommitStep == ipc = "commit" /\ ipc' = "recv" /\ ierr' = "nil"

\* C12: after the Indexer commits an entry d, docs has exactly one row with
\* url = d.url, that doc has one posting per distinct term of d's frequency
\* map, each with tf_raw >= 1 equal to the term's multiplicity, and the sum of
\* tf_raw over the doc's postings equals the stored len.
C12_PostingsMatchDocument ==
    [][CommitStep =>
          LET ds == {d \in docs' : d.url = imsg.Url} IN
          /\ Cardinality(ds) = 1
          /\ \A d \in ds :
                LET ps == {p \in postings' : p.doc_id = d.id} IN
                /\ Cardinality(ps) = Cardinality(DOMAIN imsg.TermFreqs)
                /\ \A p \in ps :
                      /\ p.tf_raw >= 1
                      /\ \E t \in terms' :
                            /\ t.id = p.term_id
                            /\ t.raw \in DOMAIN imsg.TermFreqs
                            /\ p.tf_raw = imsg.TermFreqs[t.raw]
                /\ SumTf(ps) = d.len]_vars

\* the Indexer takes a message; the driver takes a batch
IndexRecvStep == ipc = "recv" /\ ipc' = "begin"
QueueRecvStep == qpc = "select" /\ qpc' = "prepare" /\ cpc' = cpc

\* C13: after a successful extraction the Processor takes no further message
\* until the link batch was accepted by the QueueDriver and the IndexMessage
\* by the Indexer, or the context was cancelled; each is delivered at most
\* once per page.
C13_BothSendsBeforeNext ==
    /\ [][(ppc = "wait" /\ ppc' # "wait") =>
             sendIdx = "done" /\ sendQ = "done"]_vars
    /\ [][(sendIdx = "pending" /\ sendIdx' # "pending") =>
             \/ cancelled
             \/ IndexRecvStep /\ imsg'.Url = pmsg.url]_vars
    /\ [][(sendQ = "pending" /\ sendQ' # "pending") =>
             \/ cancelled
             \/ QueueRecvStep]_vars
    /\ [][(ppc' = "process" /\ ppc # "process") =>
             ppc = "recv" /\ sendIdx = "idle" /\ sendQ = "idle"]_vars
    /\ [][IndexRecvStep => sendIdx = "pending" /\ sendIdx' = "done"]_vars
    /\ [][QueueRecvStep => sendQ = "pending" /\ sendQ' = "done"]_vars

\* without cancellation the Processor is back at its receive after a page
\* that was indexed and whose links were enqueued
C13_Witness ==
    /\ ~cancelled
    /\ ppc = "recv"
    /\ docs # {}
    /\ Len(frontier) > 1

\* C14: after the context is cancelled each of QueueDriver, Fetcher,
\* Processor and Indexer eventually returns.
C14_AllReturnAfterCancel ==
    cancelled ~> (qpc = "done" /\ cpc = "done" /\ ppc = "done" /\ ipc = "done")

\* C15: a stage that finds its input channel closed cancels the shared
\* context and returns; from its receive it takes no further message once the
\* channel is closed, and having returned it does nothing more.
C15_ClosedInputCancels ==
    /\ [][(qpc = "select" /\ PQueueClosed /\ qpc' # "select") =>
             qpc' = "panic" \/ (qpc' = "done" /\ cancelled')]_vars
    /\ [][(cpc = "recv" /\ CqOutClosed /\ cpc' # "recv") =>
             cpc' = "panic" \/ (cpc' = "done" /\ cancelled')]_vars
    /\ [][(ppc = "recv" /\ COutClosed /\ ppc' # "recv") =>
             ppc' = "panic" \/ (ppc' = "done" /\ cancelled')]_vars
    /\ [][(ipc = "recv" /\ PIndexClosed /\ ipc' # "recv") =>
             ipc' = "panic" \/ (ipc' = "done" /\ cancelled')]_vars
    /\ [][/\ qpc = "done" => qpc' = "done"
          /\ cpc = "done" => cpc' = "done"
          /\ ppc = "done" => ppc' = "done"
          /\ ipc = "done" => ipc' = "done"]_vars

\* the Fetcher found cq.out closed, cancelled and returned before any other
\* channel was closed; the Indexer still holds a message
C15_Witness ==
    /\ closePc = 2
    /\ cancelled
    /\ cpc = "done"
    /\ ipc \notin {"recv", "done", "panic"}

\* the step on which the Fetcher takes a message from the driver
EmitStep == cpc = "recv" /\ cpc' = "fetch"

FetchFailStep == cpc = "fetch" /\ cpc' # "send" /\ cpc' # cpc

\* Crawler.updateItemStatus failed on this step
FetchMarkFailed == cancelled \/ faults' < faults

\* no ProcessorMessage is handed over and the Fetcher is back at its select
NothingForwarded ==
    /\ cpc' = "recv"
    /\ cmsg' = NoItem
    /\ UNCHANGED pvars

ProcessFailStep == ppc = "process" /\ ppc' # "wait" /\ ppc' # ppc

\* Processor.handleError's store call failed on this step
ProcessMarkFailed == cancelled \/ faults' < faults

\* neither sender goroutine was started, the Indexer and the queue got
\* nothing, and only the status column of the frontier may have changed
NothingSent ==
    /\ ppc' = "recv"
    /\ sendIdx = "idle" /\ sendIdx' = "idle"
    /\ sendQ = "idle" /\ sendQ' = "idle"
    /\ UNCHANGED <<ivars, dbvars, buffer>>
    /\ Len(frontier') = Len(frontier)
    /\ \A i \in 1..Len(frontier) : frontier'[i].url_norm = frontier[i].url_norm
    /\ \A d \in docs' : d.url # pmsg.url

PhaseIdx(name) == CHOOSE k \in 1..Len(Phases) : Phases[k] = name

\* the run in hand is over
RunOver == rpc \in {"idle", "stopped"}

\* C19: within every ranker run the phases execute strictly in the order df,
\* idf, norm, each starting only after the previous one succeeded; a phase
\* that still fails after its retries are exhausted ends the run without the
\* later phases, and the next run starts again from the df phase.
C19_PhasesInOrder ==
    /\ [](invoked # <<>> => invoked[1].phase = Phases[1])
    /\ [](\A i \in 1..(Len(invoked) - 1) :
             PhaseIdx(invoked[i + 1].phase) =
                PhaseIdx(invoked[i].phase) + (IF invoked[i].ok THEN 1 ELSE 0))
    /\ [](\A i \in 1..Len(invoked) :
             (~invoked[i].ok /\ invoked[i].attempt = maxRetries) =>
                /\ i = Len(invoked)
                /\ RunOver
                /\ rres # "nil")
    /\ []((rpc = "op" /\ invoked # <<>>) =>
             LET l == invoked[Len(invoked)] IN
             rphase = PhaseIdx(l.phase) + (IF l.ok THEN 1 ELSE 0))
    /\ [][runs' > runs =>
             /\ RunOver \/ rpc = "start"
             /\ rpc' = "op" /\ rphase' = 1 /\ attempt' = 0 /\ invoked' = <<>>]_vars

\* the first run got df right and gave up on idf after the last retry; the
\* second run is at the df phase
C19_Witness ==
    /\ runs = 2
    /\ rres = "store"
    /\ termDf # {} /\ termIdf = {}
    /\ rpc = "op" /\ rphase = 1 /\ invoked = <<>>
    /\ ~rctx

\* min(100 ms * 2^(k-1), 5 s), in ms
ClaimedWait(k) == IF 100 * (2 ^ (k - 1)) < 5000 THEN 100 * (2 ^ (k - 1)) ELSE 5000

\* C20: in one ranker run each phase's operation is invoked at most 1 + R
\* times (R = 5), it is not invoked again after its first success, and the
\* wait before retry k (k = 1..R) is min(100 ms * 2^(k-1), 5 s).
C20_BoundedRetriesWithBackoff ==
    /\ \A k \in 1..Len(Phases) :
          Cardinality({i \in 1..Len(invoked) : invoked[i].phase = Phases[k]}) <= 1 + 5
    /\ \A i, j \in 1..Len(invoked) :
          (i < j /\ invoked[i].ok) => invoked[j].phase # invoked[i].phase
    /\ \A i \in 1..Len(invoked) :
          /\ invoked[i].attempt \in 0..5
          /\ invoked[i].waited =
                IF invoked[i].attempt = 0 THEN 0 ELSE ClaimedWait(invoked[i].attempt)
          /\ (i > 1 /\ invoked[i - 1].phase = invoked[i].phase) =>
                invoked[i].attempt = invoked[i - 1].attempt + 1
          /\ (i > 1 /\ invoked[i - 1].phase # invoked[i].phase) =>
                invoked[i].attempt = 0
    /\ rpc = "wait" => (attempt \in 1..5 /\ delay = ClaimedWait(attempt))

\* the df phase failed six times less one and succeeded on retry 5, after
\* waits of 100, 200, 400, 800 and 1600 ms
C20_Witness ==
    /\ Len(invoked) = 6
    /\ \A i \in 1..5 : ~invoked[i].ok
    /\ invoked[6].ok /\ invoked[6].attempt = 5 /\ invoked[6].waited = 1600
    /\ invoked[2].waited = 100
    /\ rpc = "op" /\ rphase = 2
    /\ ~rctx

\* C21: if the cancellation token fires while the ranker is waiting between
\* retries, the wait ends at once, that phase's operation is not invoked
\* again, and the ranker service returns without invoking any further phase
\* operation: no new run is started after cancellation.
C21_CancelledWaitStops ==
    /\ [][(rpc = "wait" /\ rctx /\ rpc' # rpc) =>
             /\ rpc' = "idle"
             /\ rres' = "ctx"
             /\ invoked' = invoked /\ runs' = runs]_vars
    /\ [][(rpc = "idle" /\ rctx /\ rres = "ctx" /\ rpc' # rpc) =>
             /\ rpc' = "stopped"
             /\ invoked' = invoked /\ runs' = runs]_vars

\* the step on which updateRankings returns nil
RunCompletesStep == rpc = "op" /\ rpc' = "idle" /\ rres' = "nil"

\* LN((n + 1) / (df + 1)) + 1 > 0, that is (n + 1) * e > df + 1
IdfPositive(n, df) == 271828 * (n + 1) > 100000 * (df + 1)

\* C22: at the moment a ranker run completes successfully, every term row has
\* df equal to the number of postings with that term, every term row has a
\* non-null idf > 0 (df never exceeds the doc count N used for idf), and every
\* doc with at least one posting has norm > 0, for any interleaving of the
\* run's three phases with Indexer commits.
C22_RankingsConsistentAtCompletion ==
    [][RunCompletesStep =>
          /\ \A t \in terms' :
                /\ \E x \in termDf' :
                      /\ x.id = t.id
                      /\ x.df = Cardinality({q \in postings' : q.term_id = t.id})
                /\ \E x \in termIdf' :
                      /\ x.id = t.id
                      /\ x.df <= x.n
                      /\ IdfPositive(x.n, x.df)
          /\ \A d \in docs' :
                (\E q \in postings' : q.doc_id = d.id) =>
                   \E x \in docNorm' :
                      /\ x.id = d.id
                      /\ \E pt \in x.parts : IdfPositive(pt.n, pt.df)]_vars

\* a response of handleQuery is in hand
Answered == input.fn = "query" /\ "status" \in DOMAIN output

\* the docs a search can return for term w: len > 0, a posting for w, and w
\* ranked (df not NULL)
Containing(w) ==
    {d \in docs : /\ d.len > 0
                  /\ \E tr \in terms : /\ tr.raw = w
                                       /\ \E x \in termDf : x.id = tr.id
                                       /\ \E po \in postings : /\ po.term_id = tr.id
                                                               /\ po.doc_id = d.id}

\* C23: the match floor of a query is computed from its distinct terms: a
\* query whose tokens contain exactly one distinct term, even if repeated,
\* returns the docs (len > 0, up to limit) that contain that term, and a query
\* with two or more distinct terms returns only docs matching at least two of
\* them.
C23_FloorFromDistinctTerms ==
    (Answered /\ output.status = 200) =>
       LET q == Range(output.terms) IN
       /\ Cardinality(q) = 1 =>
             LET w == CHOOSE w \in q : TRUE IN
             /\ output.rankings \subseteq Containing(w)
             /\ Cardinality(output.rankings) =
                   Min(output.limit, Cardinality(Containing(w)))
       /\ Cardinality(q) >= 2 =>
             \A d \in output.rankings :
                Cardinality({w \in q : d \in Containing(w)}) >= 2

\* the query terms doc d has a posting for
TermsIn(d, q) ==
    {w \in q : \E tr \in terms : /\ tr.raw = w
                                 /\ \E po \in postings : /\ po.term_id = tr.id
                                                         /\ po.doc_id = d.id}

\* C24: for any index contents and any query, a doc that contains none of the
\* query's terms never appears in the results, a doc matching only one term of
\* a query with two or more distinct terms never appears, and at most limit
\* docs are returned, where the effective limit is always within [1, 100] (10
\* when absent).
C24_ResultsMatchAndAreLimited ==
    Answered =>
       LET q == Range(output.terms) IN
       /\ output.limit \in 1..100
       /\ input.arg.Limit = 0 => output.limit = 10
       /\ input.arg.Limit \in 1..100 => output.limit = input.arg.Limit
       /\ Cardinality(output.rankings) <= output.limit
       /\ \A d \in output.rankings :
             /\ TermsIn(d, q) # {}
             /\ Cardinality(q) >= 2 => Cardinality(TermsIn(d, q)) >= 2

\* a two-term query with limit 1 is answered with one of the two docs that
\* hold both terms, and not with the doc that holds one of them
C24_Witness ==
    /\ Answered /\ output.status = 200
    /\ input.arg.Limit = 1
    /\ Cardinality(Range(output.terms)) = 2
    /\ Cardinality(output.rankings) = 1
    /\ \E d \in docs \ output.rankings : Cardinality(TermsIn(d, Range(output.terms))) = 2
    /\ \E d \in docs \ output.rankings : Cardinality(TermsIn(d, Range(output.terms))) = 1

\* the places of url u in the order of the Dequeue results (an emitted item
\* is the Dequeue result of its iteration)
Places(u) == {k \in 1..Len(dequeued) : dequeued[k].url = u}
Place(u) == CHOOSE k \in Places(u) : TRUE

\* C25: the order in which the Indexer receives index entries is the order in
\* which the QueueDriver emitted the corresponding items, restricted to the
\* items that reach the Indexer: no two messages overtake each other between
\* QueueDriver, Fetcher, Processor and Indexer.
C25_NoOvertaking ==
    \* every message in a stage was emitted once
    /\ [](/\ cmsg # NoItem => Cardinality(Places(cmsg.url)) = 1
          /\ pmsg # NoItem => Cardinality(Places(pmsg.url)) = 1
          /\ imsg # NoEntry => Cardinality(Places(imsg.Url)) = 1)
    \* a stage further down holds a message emitted earlier
    /\ []((cmsg # NoItem /\ pmsg # NoItem) => Place(pmsg.url) < Place(cmsg.url))
    /\ []((pmsg # NoItem /\ imsg # NoEntry) => Place(imsg.Url) <= Place(pmsg.url))
    /\ []((cmsg # NoItem /\ imsg # NoEntry) => Place(imsg.Url) < Place(cmsg.url))
    \* the docs were numbered in the order of emission, and what is on its way
    \* was emitted after them
    /\ [](\A d1, d2 \in docs :
             d1.id < d2.id => Place(d1.url) < Place(d2.url))
    /\ [](\A d \in docs :
             /\ cmsg # NoItem => Place(d.url) < Place(cmsg.url)
             /\ pmsg # NoItem => Place(d.url) <= Place(pmsg.url)
             /\ imsg # NoEntry => Place(d.url) <= Place(imsg.Url))
    \* a message is handed on as it was received
    /\ [][EmitStep => cmsg' = dequeued[Len(dequeued)]]_vars
    /\ [][(ppc = "recv" /\ ppc' = "process") => pmsg' = cmsg]_vars
    /\ [][IndexRecvStep => imsg'.Url = pmsg.url]_vars

\* two pages were indexed, the second emitted after an item that never
\* reached the Indexer, and a later one is with the Fetcher
C25_Witness ==
    /\ Cardinality(docs) = 2
    /\ \E d1, d2 \in docs : d1.id < d2.id /\ Place(d2.url) > Place(d1.url) + 1
    /\ cmsg # NoItem
    /\ ~cancelled

\* a run ends with an error
RunFailsStep == rpc \in {"op", "wait"} /\ rpc' \notin {"op", "wait"} /\ rres' # "nil"

\* C26: a failed ranker run does not stop the service: Start keeps running
\* after a failed initial or scheduled run, performs a full run at the next
\* tick, and returns only after cancellation.
C26_FailedRunKeepsService ==
    \* a failed run leaves the service in the select of Start
    /\ [][RunFailsStep => rpc' = "idle"]_vars
    \* from where the next step is a run from its first phase, or the return
    \* on cancellation
    /\ [][(rpc = "idle" /\ rpc' # rpc) =>
            \/ rpc' = "op" /\ rphase' = 1 /\ attempt' = 0 /\ invoked' = <<>>
                 /\ runs' = runs + 1
            \/ rpc' = "stopped" /\ rctx]_vars
    /\ [][(rpc # "stopped" /\ rpc' = "stopped") => rctx]_vars

\* the run after one that failed on the store has reached its last phase, with
\* no cancellation
C26_Witness ==
    /\ runs = 2
    /\ rres = "store"
    /\ rpc = "op"
    /\ rphase = Len(Phases)
    /\ Len(invoked) = 2
    /\ ~rctx

\* NormalizeURL was applied to what NormalizeURL returned
NormalizedTwice == input.fn = "normalize" /\ output # NoCall /\ output.n = 2

\* C27: URL normalization is idempotent, normalize(normalize(u)) =
\* normalize(u), including for paths that end in several slashes and for
\* queries with repeated or unordered keys.
C27_NormalizeIdempotent ==
    NormalizedTwice => (output.url = output.of.url /\ output.query = output.of.query)

\* ScanWordsFromString has returned
Scanned == input.fn = "scan" /\ output # NoCall

\* a base-10 integer literal: decimal digits and nothing else
DecimalLiteral(w) == w # <<>> /\ \A k \in 1..Len(w) : w[k] \in Range(Digits)

\* C28: every token the scanner emits is lowercase, is not a stop word and is
\* not a base-10 integer literal of any length; inputs that differ only in
\* letter case give the same token sequence.
C28_TokensFiltered ==
    Scanned =>
        /\ \A k \in 1..Len(output.words) :
             /\ ToLower(output.words[k]) = output.words[k]
             /\ output.words[k] \notin stopWords
             /\ ~DecimalLiteral(output.words[k])
        /\ output.words = output.lower

\* Parse has returned for a document that html.Parse could read
Parsed == input.fn = "parse" /\ output # NoCall /\ ~input.arg.readErr

\* the values of the lang attributes of the root html element
LangOf(doc) == {doc.Attr[k].Val : k \in {j \in 1..Len(doc.Attr) : doc.Attr[j].Key = "lang"}}

\* C29: with English as the only supported language, Parse accepts a document
\* exactly when its root html element has no lang attribute or the lang
\* attribute is exactly "en" or "eng"; two- or three-character values other
\* than these and values of any other length are rejected with the
\* unsupported-language error.
C29_LanguageGate ==
    Parsed =>
        /\ output.err = "nil" <=>
              \/ LangOf(input.arg.doc) = {}
              \/ LangOf(input.arg.doc) \subseteq {<<"e", "n">>, <<"e", "n", "g">>}
        /\ output.err \in {"nil", "ErrorNotSupportedLanguage"}

\* a document with lang="EN" was rejected
C29_Witness ==
    /\ Parsed
    /\ LangOf(input.arg.doc) = {<<"E", "N">>}
    /\ output.err = "ErrorNotSupportedLanguage"

\* ProcessHtmlDocument has returned the links of a document
LinksExtracted == input.fn = "links" /\ output # NoCall

\* the nodes of the document that are <a> elements with href value h
Anchors(h) ==
    {k \in 1..Len(input.arg.nodes) :
        /\ input.arg.nodes[k].tag = "a"
        /\ \E j \in 1..Len(input.arg.nodes[k].Attr) :
              input.arg.nodes[k].Attr[j] = [Key |-> "href", Val |-> h]}

FirstAnchor(h) == CHOOSE k \in Anchors(h) : \A j \in Anchors(h) : k <= j

\* C30: the links extracted from a page contain each distinct href value of
\* its <a> elements exactly once, in the order of first occurrence in the
\* document.
C30_DistinctLinksInOrder ==
    LinksExtracted =>
        LET links == output.ex.Links IN
        /\ \A h \in {"/x", "/y", "/z"} :
              Cardinality({k \in 1..Len(links) : links[k] = h})
                 = IF Anchors(h) = {} THEN 0 ELSE 1
        /\ \A i, j \in 1..Len(links) :
              i < j => FirstAnchor(links[i]) < FirstAnchor(links[j])

\* the step on which Index.Close has called cq.queue.Close()
CloseStep == closePc = 0 /\ closePc' = 1

\* C31: close() deletes exactly the frontier rows whose status is Completed
\* and leaves every frontier row with status Unvisited, InProgress or Failed,
\* and all docs, terms and postings rows, unchanged.
C31_CloseDeletesCompleted ==
    [][CloseStep =>
         /\ \A i \in 1..Len(frontier') : frontier'[i].status # StatusCompleted
         /\ \A i \in 1..Len(frontier) :
               frontier[i].status # StatusCompleted =>
                   Cardinality({j \in 1..Len(frontier') : frontier'[j] = frontier[i]}) = 1
         /\ Len(frontier') =
               Cardinality({i \in 1..Len(frontier) : frontier[i].status # StatusCompleted})
         /\ docs' = docs /\ terms' = terms /\ postings' = postings]_vars

\* C31 as it holds of the code: the DELETE is best effort; when the store
\* call fails close() changes no row at all
C31_CloseDeletesCompletedIfStoreAnswers ==
    [][CloseStep =>
         /\ \/ /\ \A i \in 1..Len(frontier') : frontier'[i].status # StatusCompleted
               /\ \A i \in 1..Len(frontier) :
                     frontier[i].status # StatusCompleted =>
                         Cardinality({j \in 1..Len(frontier') :
                                         frontier'[j] = frontier[i]}) = 1
               /\ Len(frontier') =
                     Cardinality({i \in 1..Len(frontier) :
                                     frontier[i].status # StatusCompleted})
            \/ /\ faults' < faults
               /\ frontier' = frontier
         /\ docs' = docs /\ terms' = terms /\ postings' = postings]_vars

\* close() has run: the row of an indexed page is gone, an InProgress row and
\* an Unvisited row are still there
C31_Witness ==
    /\ closePc = 1
    /\ \E d \in docs : RowsByNorm(frontier, NormalizeURL(d.url)) = {}
    /\ \E i \in 1..Len(frontier) : frontier[i].status = StatusInProgress
    /\ \E i \in 1..Len(frontier) : frontier[i].status = StatusUnvisited

\* the driver leaves its select for the next Dequeue while an item is armed
NextIterationStep == qpc = "select" /\ activeOut /\ qpc' = "prepare"

\* C32: every item the QueueDriver obtains from Dequeue is emitted on the
\* outbound stream before the driver calls Dequeue again, unless cancellation
\* fires: taking the inbound arm of the select never discards an item that
\* was already dequeued.
C32_DequeuedIsEmitted ==
    [][NextIterationStep => (EmitStep /\ cmsg' = top)]_vars

\* the docs rows of the entry the Indexer holds, indexed before with the same
\* url, domain and content
SameIndexed == {d \in docs : d.url = imsg.Url /\ d.domain = imsg.Domain /\ d.hash = imsg.Hash}

\* C33: indexing the same entry (same url, domain, hash and term frequencies)
\* a second time succeeds: the doc upsert returns the existing doc id, the
\* docs, terms and postings tables are left unchanged, and the frontier item
\* ends Completed.
C33_ReindexSameEntrySucceeds ==
    /\ [][(ipc = "doc" /\ ipc' # ipc /\ faults' = faults /\ SameIndexed # {}) =>
             /\ ipc' = "terms"
             /\ \E d \in SameIndexed : tx'.docId = d.id]_vars
    /\ [][(CommitStep /\ SameIndexed # {}) =>
             /\ docs' = docs /\ terms' = terms /\ postings' = postings
             /\ StatusOf(frontier', imsg.UrlNorm) = StatusCompleted]_vars

\* C34: after any sequence of Indexer commits, including a re-index of a URL
\* whose content changed, each doc's postings are exactly the distinct terms
\* of its latest indexed content with their multiplicities (postings for terms
\* no longer present are gone) and the stored hash and len are those of the
\* latest content.
C34_LatestContentIndexed ==
    [][CommitStep =>
          \* the document of the entry that was committed has its content
          /\ \E d \in docs' :
                /\ d.url = imsg.Url
                /\ d.hash = imsg.Hash
                /\ d.len = imsg.Len
                /\ {[raw |-> (CHOOSE t \in terms' : t.id = p.term_id).raw,
                     tf |-> p.tf_raw] : p \in {q \in postings' : q.doc_id = d.id}}
                      = {[raw |-> w, tf |-> imsg.TermFreqs[w]] : w \in DOMAIN imsg.TermFreqs}
          \* and every other document is as it was
          /\ \A d \in docs : d.url # imsg.Url =>
                /\ d \in docs'
                /\ {q \in postings' : q.doc_id = d.id} = {q \in postings : q.doc_id = d.id}]_vars

\* C35: whenever the QueueDriver task returns, the shared cancellation token
\* has fired (it either observed cancellation or fired it itself): neither a
\* dequeue error nor an initially empty queue makes the driver exit while the
\* other stages keep waiting on it.
C35_DriverReturnsOnlyCancelled == qpc = "done" => cancelled

C37_CloseAfterSenders ==
    \* close(cq.out): the driver has returned
    /\ [][(closePc = 1 /\ closePc' = 2) => qpc = "done"]_vars
    \* close(c.out): the Fetcher has returned
    /\ [][(closePc = 2 /\ closePc' = 3) => cpc = "done"]_vars
    \* close(p.queue), close(p.index): the Processor and its senders have
    /\ [][(closePc = 3 /\ closePc' = 4) => (ppc = "done" /\ sendQ # "pending")]_vars
    /\ [][(closePc = 4 /\ closePc' = 5) => (ppc = "done" /\ sendIdx # "pending")]_vars
    \* each channel is closed once, in the order of Index.Close
    /\ [][closePc' # closePc => (closePc' = closePc + 1 \/ closePc' = 6)]_vars

\* C38: in every reachable state each item of the in-memory buffer has a
\* persisted frontier row whose status is Unvisited, no url_norm occurs twice
\* in the buffer, and the buffer holds at most bufSize items
C38_BufferBackedByStore ==
    /\ \A i \in 1..Len(buffer) :
           \E k \in RowsByNorm(frontier, buffer[i].url_norm) :
               frontier[k].status = StatusUnvisited
    /\ \A i, j \in 1..Len(buffer) :
           i # j => buffer[i].url_norm # buffer[j].url_norm
    /\ Len(buffer) <= bufSize

\* the buffer is full again after an item was served from it: an Enqueue of
\* extracted links has appended to what the buffer already held
C38_Witness ==
    /\ bufSize > 1 /\ Len(buffer) = bufSize
    /\ Len(dequeued) >= 1
    /\ \E i \in 1..Len(buffer) : buffer[i].depth > 0

\* the select of CrawlQueue.Run has no ready arm: nobody takes the item it
\* offers, no batch is offered to it
DriverBlocked == qpc = "select" /\ ~ENABLED QEmit /\ ~ENABLED QAccept

\* c.out <- msg has no receiver
FetcherBlocked == cpc = "send" /\ ~ENABLED CSend

\* processMessage waits for senders none of which can hand its message over
ProcessorBlocked ==
    /\ ppc = "wait"
    /\ sendIdx = "pending" \/ sendQ = "pending"
    /\ ~ENABLED IRecv /\ ~ENABLED QAccept

AllBlocked == DriverBlocked /\ FetcherBlocked /\ ProcessorBlocked

============================================================================
